---- MODULE Spec2Model ----
(***************************************************************************)
(* The notebook document model of @jupyterlab/notebook: the cell           *)
(* collection (an undoable list), the document metadata, the format        *)
(* version and the dirty flag.  The behaviour the unit tests of            *)
(* NotebookModel assert is taken from those tests; the implementation of   *)
(* NotebookModel, of the cell list and of the metadata map is not part of  *)
(* the source tree and is modelled from the specification's contracts.     *)
(***************************************************************************)
EXTENDS Integers, Sequences, FiniteSets, TLC

\* ------------------------------------------------------------------ bounds

\* Cell models ever created (by the content factory or by a load).
MaxCells == 2
\* Batches the undo history of the cell collection may hold.
MaxHist == 2
\* Cells of a document handed to fromJSON / fromString.
MaxDocCells == 2
\* LabIcon objects ever made, badIcon, blankIcon and the views among them.
MaxObjects == 4
\* Uuids ever made: one for every assignment to an icon's svgstr.
MaxUuid == 5
\* Containers of the document that icons are rendered into.
MaxContainers == 1

\* ------------------------------------------------------- program constants

\* nbformat.MAJOR_VERSION and nbformat.MINOR_VERSION of the library.
MAJOR_VERSION == 4
MINOR_VERSION == 2

\* ------------------------------------------------------------------ values

CellTypes == {"code", "markdown", "raw"}
Texts == {"", "foo"}

\* JSON values of the metadata map: an object with a name, a string, or no
\* value at all (undefined).
Absent == [kind |-> "absent", v |-> ""]
Obj(n) == [kind |-> "obj", v |-> n]
Str(s) == [kind |-> "str", v |-> s]

Num(n) == [kind |-> "num", v |-> n]
\* An object that has no name.
Nameless == [kind |-> "nameless", v |-> ""]

MetaKeys == {"kernelspec", "language_info", "foo"}

\* The keys and the values the callers of the metadata map use.
CallerKeys == {"foo"}
CallerValues == {Str("bar")}

\* The cell types the callers of the content factory ask for.
CallerTypes == {"code"}

\* The cells of a serialized document.
DocCell(t, s) == [cell_type |-> t, source |-> s]
DocCellAlphabet == {DocCell("code", "foo"), DocCell("markdown", "")}
DocCellSeqs == UNION {[1..n -> DocCellAlphabet] : n \in 0..MaxDocCells}

NoMeta == [k \in MetaKeys |-> Absent]

\* A JSON value handed to fromJSON: `hasCells` is FALSE for a value whose
\* cells field is missing or is no sequence; `orig_nbformat` is the one of
\* its metadata, 0 when the metadata record none.
Doc(cs, md) ==
  [hasCells |-> TRUE, cells |-> cs, metadata |-> md,
   nbformat |-> MAJOR_VERSION, nbformat_minor |-> MINOR_VERSION,
   orig_nbformat |-> 0]
MalformedDoc ==
  [hasCells |-> FALSE, cells |-> <<>>, metadata |-> NoMeta,
   nbformat |-> MAJOR_VERSION, nbformat_minor |-> MINOR_VERSION,
   orig_nbformat |-> 0]
Docs == {Doc(cs, NoMeta) : cs \in DocCellSeqs} \cup {MalformedDoc}
NoDoc == MalformedDoc

\* A string handed to fromString: JSON text of a value, or no JSON at all.
JSONstringify(d) == [valid |-> TRUE, value |-> d]
NotJSON == [valid |-> FALSE, value |-> NoDoc]
DocTexts ==
  {JSONstringify(Doc(<<DocCell("code", "foo")>>, NoMeta)),
   JSONstringify(MalformedDoc), NotJSON}

\* No key, no value, no text and no index: what a call that takes none is
\* given.
NoKey ==
  [key |-> "", value |-> Absent, text |-> NotJSON, index |-> 0, type |-> ""]

\* What an operation returned.
RetNone == [kind |-> "none"]
RetDoc(d) == [kind |-> "doc", doc |-> d]
RetText(d) == [kind |-> "text", doc |-> d]
RetValue(x) == [kind |-> "value", value |-> x]
RetBool(b) == [kind |-> "bool", b |-> b]

\* ------------------------------------------------------------------- state

VARIABLES
  store,         \* the cell models created so far: store[id] = [type, text]
  cells,         \* model.cells: the ids of the cells, in order
  stack,         \* the undo history of model.cells: a sequence of batches
  index,         \* stack[1..index] can be undone, the rest can be redone
  metadata,      \* model.metadata
  nbformat,      \* model.nbformat
  nbformatMinor, \* model.nbformatMinor
  dirty,         \* model.dirty
  op,            \* the last call
  err,           \* the error the last call raised, "none" if it returned
  ret,           \* what the last call returned
  arg,           \* the document the last load was given; after toJSON, the
                 \* document of the fromJSON it was called right after
  after,         \* for undo and redo: the call they came right after, when
                 \* that was a call on the list or a load that returned
  before,        \* for undo and redo: the list that call started with
  pre,           \* what the last call started with
  emitted,       \* the deliveries of contentChanged and metadata.changed
                 \* the last call made before it returned, in their order
  dialogs,       \* the format dialogs the last call presented
  given,         \* the key and the value the last metadata call was given,
                 \* the text the last fromString was given, the index the
                 \* last insert was given
  isDisposed,    \* model.isDisposed
  cellsNull,     \* model.cells is null
  other,         \* the cells of a second model: the ids of its cells, in order
  instances,     \* LabIcon._instances: the registered icons by name
  heap,          \* the LabIcon objects, each with its prototype and fields
  containers,    \* the DOM containers of the document: the child of each
  uuids,         \* the number of uuids made so far
  debug,         \* LabIcon._debug
  icall,         \* the last call of an icon: its arguments and its result
  repo           \* the last call of the integrity tool: what it was given,
                 \* what it made of the manifests and how it ended

vars == <<store, cells, stack, index, metadata, nbformat, nbformatMinor,
          dirty, op, err, ret, arg, after, before, pre, emitted, dialogs,
          given, isDisposed, cellsNull, other, instances, heap, containers,
          uuids, debug, icall, repo>>

iconVars == <<instances, heap, containers, uuids, debug, icall>>

\* ----------------------------------------------------------------- signals

\* The slots connected to a signal, in the order they were connected.
Subscribers == <<"first", "second">>

\* One delivery of a signal to a slot.  The arguments of metadata.changed
\* are the key, the old and the new value; contentChanged carries none.
Delivery(sig, to, k, old, new) ==
  [signal |-> sig, to |-> to, key |-> k, oldValue |-> old, newValue |-> new]

\* signal.emit(args): every connected slot is invoked once, in the order of
\* connection.
Emit(sig, k, old, new) ==
  [i \in 1..Len(Subscribers) |-> Delivery(sig, Subscribers[i], k, old, new)]

\* The model's contentChanged signal, emitted once.
ContentChanged == Emit("contentChanged", "", Absent, Absent)

\* A metadata.changed that carries the old value for the new one.
MetadataChangedSwapped(k, old, new) ==
  ContentChanged \o Emit("metadata.changed", k, new, old)

\* metadata.changed for a key: the model, connected first, emits
\* contentChanged; then the other slots are invoked.
MetadataChanged(k, old, new) ==
  ContentChanged \o Emit("metadata.changed", k, old, new)

\* The cells of the list as they are serialized, in order.
Content(cs, st) == [i \in 1..Len(cs) |-> st[cs[i]]]

\* What a call starts with, kept to state what the call did.
Snapshot ==
  [cells |-> cells, content |-> Content(cells, store), index |-> index,
   metadata |-> metadata, dirty |-> dirty,
   nbformat |-> nbformat, nbformatMinor |-> nbformatMinor,
   isDisposed |-> isDisposed, cellsNull |-> cellsNull]
NoList == [cells |-> <<>>, content |-> <<>>, index |-> 0]

Range(s) == {s[i] : i \in DOMAIN s}

\* ------------------------------------------------- the list and its changes

\* Indices are the program's: the first element has index 0.
InsertAt(s, i, vs) == SubSeq(s, 1, i) \o vs \o SubSeq(s, i + 1, Len(s))
RemoveAt(s, i, n) == SubSeq(s, 1, i) \o SubSeq(s, i + n + 1, Len(s))
MoveIn(s, f, t) == InsertAt(RemoveAt(s, f, 1), t, <<s[f + 1]>>)

\* The change records the list emits.
AddChange(i, vs) ==
  [type |-> "add", oldIndex |-> -1, newIndex |-> i,
   oldValues |-> <<>>, newValues |-> vs]
RemoveChange(i, vs) ==
  [type |-> "remove", oldIndex |-> i, newIndex |-> -1,
   oldValues |-> vs, newValues |-> <<>>]
MoveChange(f, t, v) ==
  [type |-> "move", oldIndex |-> f, newIndex |-> t,
   oldValues |-> <<v>>, newValues |-> <<v>>]

\* A redo that puts added values at the end of the list.
RedoChangeAppend(s, ch) ==
  CASE ch.type = "add" -> s \o ch.newValues
    [] ch.type = "remove" -> RemoveAt(s, ch.oldIndex, Len(ch.oldValues))
    [] ch.type = "move" -> MoveIn(s, ch.oldIndex, ch.newIndex)

RedoChange(s, ch) ==
  CASE ch.type = "add" -> InsertAt(s, ch.newIndex, ch.newValues)
    [] ch.type = "remove" -> RemoveAt(s, ch.oldIndex, Len(ch.oldValues))
    [] ch.type = "move" -> MoveIn(s, ch.oldIndex, ch.newIndex)

\* An undo that puts removed values back at the end of the list.
UndoChangeAppend(s, ch) ==
  CASE ch.type = "add" -> RemoveAt(s, ch.newIndex, Len(ch.newValues))
    [] ch.type = "remove" -> s \o ch.oldValues
    [] ch.type = "move" -> MoveIn(s, ch.newIndex, ch.oldIndex)

UndoChange(s, ch) ==
  CASE ch.type = "add" -> RemoveAt(s, ch.newIndex, Len(ch.newValues))
    [] ch.type = "remove" -> InsertAt(s, ch.oldIndex, ch.oldValues)
    [] ch.type = "move" -> MoveIn(s, ch.newIndex, ch.oldIndex)

RECURSIVE RedoBatch(_, _)
RedoBatch(s, b) ==
  IF b = <<>> THEN s ELSE RedoBatch(RedoChange(s, Head(b)), Tail(b))

\* A batch is undone from its last change to its first.
RECURSIVE UndoBatch(_, _)
UndoBatch(s, b) ==
  IF b = <<>> THEN s
  ELSE UndoBatch(UndoChange(s, b[Len(b)]), SubSeq(b, 1, Len(b) - 1))

\* A batch of changes enters the history: what could be redone is dropped.
Record(st, ix, batch) == SubSeq(st, 1, ix) \o <<batch>>

\* ------------------------------------------- what the unit tests determine

\* The dirty flag of a model that was just constructed.
InitialDirty == FALSE

\* A change of the cell list that leaves the dirty flag as it was.
DirtyKeptOnCellsChanged == dirty

\* The dirty flag after the cell list emitted a change (add, remove, move).
DirtyOnCellsChanged == TRUE

\* The dirty flag after the text of a cell of the list changed.
DirtyOnCellContentChanged == TRUE

\* The dirty flag after a metadata key changed its value.
DirtyOnMetadataChanged == TRUE

\* A load that ends by clearing the dirty flag, and one that leaves it.
DirtyClearedOnLoad == FALSE
DirtyKeptOnLoad == dirty

\* The dirty flag a successful load leaves.
DirtyOnLoad == TRUE

\* A set that does not compare the values.
ValueChangesAlways(old, v) == TRUE

\* Setting a key that holds `old` to `v` changes the map: the values are
\* compared by value.
ValueChanges(old, v) == old # v

\* The changes by which a load replaces the old cells by the new ones.
LoadBatch(old, new) == <<RemoveChange(0, old), AddChange(0, new)>>

\* A load that empties the history, and one that leaves its replacement
\* out of it.
LoadHistoryReset(st, ix, batch) == <<>>
LoadHistoryUnrecorded(st, ix, batch) == SubSeq(st, 1, ix)

\* The undo history after a load: the replacement is one more batch of it.
LoadHistory(st, ix, batch) == Record(st, ix, batch)

\* -------------------------------------------------------------- the icons

\* The svg strings of the three icons the module imports.
badSvgstr == "bad.svg"
blankSvgstr == "blank.svg"
refreshSvgstr == "refresh.svg"

\* The svg strings that parse: the imported ones and two of a caller.
WellFormed == {badSvgstr, blankSvgstr, refreshSvgstr, "one.svg", "two.svg"}

\* DOM nodes: an svg element with its text, and in its dataset the name and
\* the uuid of the icon it was made for (empty and 0: not set); the parser's
\* error node; an empty div; and the values undefined and null.
Node(k, s, n, id) == [kind |-> k, svg |-> s, icon |-> n, iconId |-> id]
Undefined == Node("undefined", "", "", 0)
Null == Node("null", "", "", 0)
Div == Node("div", "", "", 0)

\* The props of element() and of the React component that a call or a view
\* gives: a label, a title and a class, each empty when it is not given.
NoProps == [label |-> "", title |-> "", className |-> ""]
AllProps == [label |-> "label", title |-> "title", className |-> "class"]

\* {...bound, ...props}: the props of the call, and the bound ones for those
\* the call does not give.
Spread(bound, props) ==
  [f \in DOMAIN NoProps |-> IF props[f] # "" THEN props[f] ELSE bound[f]]

\* A container: its text, its child element after the text, its title and
\* its class.
Container(t, e, ti, cl) ==
  [text |-> t, child |-> e, title |-> ti, className |-> cl]
EmptyContainer == Container("", Undefined, "", "")

\* container.firstElementChild: the child, whether there is a text or not.
FirstElementChild(c) == c.child

\* container.firstChild: the text node if there is a text, else the child.
FirstChild(c) == IF c.text # "" THEN Node("text", c.text, "", 0) ELSE c.child

\* A property of an object: its own, or left to the prototype.
Own(x) == [own |-> TRUE, v |-> x]
Inherited(x) == [own |-> FALSE, v |-> x]

\* `this` when the constructor's body starts: the fields with an initializer
\* are its own, the others are not set. A uuid of 0 is undefined.
Constructing ==
  [proto |-> 0, name |-> Inherited(""), svgstr |-> Inherited(""),
   uuid |-> Inherited(0), loading |-> Inherited(FALSE), props |-> Own(NoProps),
   svgElementRaw |-> Own(Undefined), svgElement |-> Own(Undefined),
   svgInnerHTML |-> Own(Undefined), svgReactAttrs |-> Own(Undefined)]

\* Object.create(o): an object with prototype `o` and no property of its own.
ObjectCreate(o) ==
  [proto |-> o, name |-> Inherited(""), svgstr |-> Inherited(""),
   uuid |-> Inherited(0), loading |-> Inherited(FALSE),
   props |-> Inherited(NoProps), svgElementRaw |-> Inherited(Undefined),
   svgElement |-> Inherited(Undefined), svgInnerHTML |-> Inherited(Undefined),
   svgReactAttrs |-> Inherited(Undefined)]

\* o.f: the object's own property, else its prototype's.
RECURSIVE Get(_, _, _)
Get(h, o, f) ==
  IF h[o][f].own \/ h[o].proto = 0 THEN h[o][f].v ELSE Get(h, h[o].proto, f)

\* o.f = x: the property becomes the object's own.
Put(h, o, f, x) == [h EXCEPT ![o][f] = Own(x)]

\* LabIcon._instances, a Map: its entries, and has, get and set.
MapHasNever(m, k) == FALSE
MapHas(m, k) == \E e \in m : e.key = k
MapGet(m, k) == (CHOOSE e \in m : e.key = k).icon
MapSetNothing(m, k, v) == m
MapSet(m, k, v) == {e \in m : e.key # k} \cup {[key |-> k, icon |-> v]}

\* A resolveSvg that is null for a string that does not parse, debug or not.
resolveSvgQuiet(d, svgstr) ==
  IF svgstr \notin WellFormed THEN Null ELSE Node("svg", svgstr, "", 0)

\* LabIcon.resolveSvg({name, svgstr}): the svg node, or for a string that
\* does not parse the parser's error node (debug on) or null (debug off).
resolveSvg(d, svgstr) ==
  IF svgstr \notin WellFormed
  THEN IF d THEN Node("parsererror", svgstr, "", 0) ELSE Null
  ELSE Node("svg", svgstr, "", 0)

\* get svgElementRaw() of the object `x`: the heap after it.
svgElementRaw(h, d, x) ==
  IF Get(h, x, "svgElementRaw") = Undefined
  THEN Put(h, x, "svgElementRaw", resolveSvg(d, Get(h, x, "svgstr")))
  ELSE h

\* A getter that leaves the uuid out of the element's dataset.
svgElementUnmarked(h, d, x) ==
  IF Get(h, x, "svgElement") # Undefined
  THEN h
  ELSE LET h1 == svgElementRaw(h, d, x)
           raw == Get(h1, x, "svgElementRaw")
       IN  IF raw = Null
           THEN Put(h1, x, "svgElement", Null)
           ELSE Put(h1, x, "svgElement",
                    IF raw.kind # "parsererror"
                    THEN [raw EXCEPT !.icon = Get(h1, x, "name")]
                    ELSE raw)

\* get svgElement() of the object `x`: the heap after it.
svgElement(h, d, x) ==
  IF Get(h, x, "svgElement") # Undefined
  THEN h
  ELSE LET h1 == svgElementRaw(h, d, x)
           raw == Get(h1, x, "svgElementRaw")
       IN  IF raw = Null
           THEN Put(h1, x, "svgElement", Null)
           ELSE Put(h1, x, "svgElement",
                    IF raw.kind # "parsererror"
                    THEN [raw EXCEPT !.icon = Get(h1, x, "name"),
                                     !.iconId = Get(h1, x, "uuid")]
                    ELSE raw)

\* get svgInnerHTML() of the object `x`: the heap after it.
svgInnerHTML(h, d, x) ==
  IF Get(h, x, "svgInnerHTML") # Undefined
  THEN h
  ELSE LET h1 == svgElement(h, d, x)
           el == Get(h1, x, "svgElement")
       IN  IF el = Null
           THEN Put(h1, x, "svgInnerHTML", Null)
           ELSE Put(h1, x, "svgInnerHTML", Node("html", el.svg, "", 0))

\* get svgReactAttrs() of the object `x`: the heap after it. The attributes
\* are the element's but for the data-icon-id.
svgReactAttrs(h, d, x) ==
  IF Get(h, x, "svgReactAttrs") # Undefined
  THEN h
  ELSE LET h1 == svgElement(h, d, x)
           el == Get(h1, x, "svgElement")
       IN  IF el = Null
           THEN Put(h1, x, "svgReactAttrs", Null)
           ELSE Put(h1, x, "svgReactAttrs", Node("attrs", el.svg, el.icon, 0))

\* The containers whose child the selector [data-icon-id="id"] finds.
WithIconId(cs, id) ==
  {c \in DOMAIN cs :
     cs[c].child.kind = "svg" /\ id # 0 /\ cs[c].child.iconId = id}

\* A setter that makes a new uuid only for another string than the old one.
svgstrHeapChanged(h, cs, d, x, s, u) ==
  LET h1 == Put(Put(h, x, "svgstr", s), x, "uuid",
                IF Get(h, x, "svgstr") = s THEN Get(h, x, "uuid") ELSE u)
  IN  Put(Put(Put(Put(h1, x, "svgElementRaw", Undefined),
                  x, "svgElement", Undefined),
              x, "svgInnerHTML", Undefined),
          x, "svgReactAttrs", Undefined)

\* A setter that leaves the caches as they are.
svgstrHeapCached(h, cs, d, x, s, u) ==
  Put(Put(h, x, "svgstr", s), x, "uuid", u)

\* set svgstr(svgstr) on the object `x`, with `u` the new uuid: the heap
\* after it. The object gets the string, the uuid and empty caches of its
\* own; its svg element is made anew if a node in the document has the old
\* uuid.
svgstrHeap(h, cs, d, x, s, u) ==
  LET h1 == Put(Put(h, x, "svgstr", s), x, "uuid", u)
      h2 == Put(Put(Put(Put(h1, x, "svgElementRaw", Undefined),
                        x, "svgElement", Undefined),
                    x, "svgInnerHTML", Undefined),
                x, "svgReactAttrs", Undefined)
  IN  IF WithIconId(cs, Get(h, x, "uuid")) # {}
      THEN svgElement(h2, d, x)
      ELSE h2

\* set svgstr(svgstr): the containers after it. The nodes with the old uuid
\* are replaced by copies of the new svg element, if there is one.
svgstrContainers(h, cs, d, x, s, u) ==
  LET new == Get(svgstrHeap(h, cs, d, x, s, u), x, "svgElement")
  IN  [c \in DOMAIN cs |->
         IF c \in WithIconId(cs, Get(h, x, "uuid")) /\ new # Null
         THEN [cs[c] EXCEPT !.child = new]
         ELSE cs[c]]

\* The heap after the constructor made and filled a new icon.
Constructed(h, cs, d, n, s, l, u) ==
  svgstrHeap(Append(h, [Constructing EXCEPT !.loading = Own(l),
                                            !.name = Own(n)]),
             cs, d, Len(h) + 1, s, u)

\* The two icons the module makes when it is loaded.
badIcon == 1
blankIcon == 2

\* No call of an icon yet.
NoCall ==
  [op |-> "none", kind |-> "", target |-> 0, name |-> "", svgstr |-> "",
   loading |-> FALSE, ret |-> 0, el |-> Undefined, log |-> <<>>,
   emitted |-> 0, was |-> "", container |-> 0, props |-> NoProps,
   before |-> EmptyContainer]

\* The icons once the module is loaded: badIcon and blankIcon are registered.
InitIcons ==
  /\ containers = [c \in 1..MaxContainers |-> EmptyContainer]
  /\ debug = FALSE
  /\ heap = Constructed(
              Constructed(<<>>, containers, debug, "ui-components:bad",
                          badSvgstr, FALSE, 1),
              containers, debug, "ui-components:blank", blankSvgstr, FALSE, 2)
  /\ instances = MapSet(MapSet({}, "ui-components:bad", badIcon),
                        "ui-components:blank", blankIcon)
  /\ uuids = 2
  /\ icall = NoCall

\* ---------------------------------------------------------------------
\* The repository integrity tool (buildutils/src/ensure-repo.ts): values.
\* ---------------------------------------------------------------------

\* A Dict (an object used as a dictionary, or a Map) is a sequence of
\* entries: Object.keys, Object.entries and Map.forEach go in insertion
\* order.
Entry(k, v) == [key |-> k, value |-> v]

\* The values undefined, true and false where a manifest may hold a string.
NoValue == "<undefined>"
JsTrue == "<true>"
JsFalse == "<false>"

\* `!v`
Falsy(v) == v \in {NoValue, JsFalse, ""}

\* `typeof v === 'string'`
IsString(v) == v \notin {NoValue, JsTrue, JsFalse}

\* `k in d`
DictHas(d, k) == \E i \in DOMAIN d : d[i].key = k

\* `d[k]`
DictGet(d, k) ==
  IF DictHas(d, k) THEN d[CHOOSE i \in DOMAIN d : d[i].key = k].value
  ELSE NoValue

\* `d[k] = v`: an existing key keeps its place, a new one goes last.
DictSet(d, k, v) ==
  IF DictHas(d, k)
  THEN [i \in DOMAIN d |-> IF d[i].key = k THEN Entry(k, v) ELSE d[i]]
  ELSE Append(d, Entry(k, v))

\* `delete d[k]`
DictDelete(d, k) == SelectSeq(d, LAMBDA e : e.key # k)

\* Object.keys(d), as the sequence it is and as a set.
DictKeys(d) == [i \in DOMAIN d |-> d[i].key]

KeySet(d) == {d[i].key : i \in DOMAIN d}

\* '^' + version and `~${version}`: the prefix and the version.
Semver(prefix, version) == prefix \o version

\* data.jupyterlab: { coreDependency, extension, mimeExtension }, or
\* undefined (`defined` is FALSE).
Meta(c, e, m) ==
  [defined |-> TRUE, coreDependency |-> c, extension |-> e,
   mimeExtension |-> m]

NoJupyterlab ==
  [defined |-> FALSE, coreDependency |-> NoValue, extension |-> NoValue,
   mimeExtension |-> NoValue]

\* A package at a path, as its package.json describes it.  `name` is
\* undefined when the package.json cannot be read: the gathering loop of
\* ensureIntegrity and the loops of ensureJupyterlab skip such a path.
Package(p, n, v, deps, meta) ==
  [path |-> p, name |-> n, version |-> v, dependencies |-> deps,
   jupyterlab |-> meta]

Readable(pkg) == pkg.name # NoValue

\* path.join(basePath, 'packages', 'metapackage')
mpPath == "packages/metapackage"

\* ------------------------------------------------------ ensureMetaPackage

\* The state of the loops of ensureMetaPackage.
MetaState(deps, messages, seen) ==
  [dependencies |-> deps, messages |-> messages, seen |-> seen]

\* The body of the first loop, for one core path: a package that is not the
\* metapackage and has a name is seen, and is made a dependency when the
\* manifest has none for it.
EnsureDependencyUnseen(st, pkg) ==
  IF pkg.path = mpPath \/ Falsy(pkg.name) THEN st
  ELSE IF Falsy(DictGet(st.dependencies, pkg.name))
       THEN MetaState(DictSet(st.dependencies, pkg.name,
                              Semver("^", pkg.version)),
                      Append(st.messages, <<"Updated", pkg.name>>),
                      st.seen)
       ELSE st

EnsureDependency(st, pkg) ==
  IF pkg.path = mpPath \/ Falsy(pkg.name) THEN st
  ELSE IF Falsy(DictGet(st.dependencies, pkg.name))
       THEN MetaState(DictSet(st.dependencies, pkg.name,
                              Semver("^", pkg.version)),
                      Append(st.messages, <<"Updated", pkg.name>>),
                      st.seen \cup {pkg.name})
       ELSE MetaState(st.dependencies, st.messages, st.seen \cup {pkg.name})

\* The body of the second loop, for one key of the dependencies: a
\* dependency that was not seen is removed.
RemoveExtra(st, name) ==
  IF name \notin st.seen
  THEN MetaState(DictDelete(st.dependencies, name),
                 Append(st.messages, <<"Removing dependency", name>>),
                 st.seen)
  ELSE st

\* The two loops, over the core paths and then over the keys that the
\* dependencies have when the second loop starts.
MetaPackageLoops(core, deps) ==
  LET first[i \in 0..Len(core)] ==
        IF i = 0 THEN MetaState(deps, <<>>, {})
        ELSE EnsureDependency(first[i - 1], core[i])
      keys == DictKeys(first[Len(core)].dependencies)
      second[i \in 0..Len(keys)] ==
        IF i = 0 THEN first[Len(core)]
        ELSE RemoveExtra(second[i - 1], keys[i])
  IN  second[Len(keys)]

\* ------------------------------------------------------- ensureJupyterlab

\* coreData: the readable core packages by name.
CoreData(core) ==
  LET f[i \in 0..Len(core)] ==
        IF i = 0 THEN <<>>
        ELSE IF Readable(core[i])
             THEN DictSet(f[i - 1], core[i].name, core[i])
             ELSE f[i - 1]
  IN  f[Len(core)]

\* First every core package gets the resolution '~' + its version.
DirectResolutions(coreData) ==
  LET f[i \in 0..Len(coreData)] ==
        IF i = 0 THEN <<>>
        ELSE DictSet(f[i - 1], coreData[i].key,
                     Semver("~", coreData[i].value.version))
  IN  f[Len(coreData)]

\* One dependency of a core package: a singleton without a resolution gets
\* the version the package asks for.
FillSingletonAlways(singletonPackages, resolutions, dep) ==
  IF dep.key \in Range(singletonPackages)
  THEN DictSet(resolutions, dep.key, dep.value)
  ELSE resolutions

FillSingleton(singletonPackages, resolutions, dep) ==
  IF dep.key \in Range(singletonPackages) /\ ~DictHas(resolutions, dep.key)
  THEN DictSet(resolutions, dep.key, dep.value)
  ELSE resolutions

\* Then the dependencies of every core package, in the order of the
\* packages and of their entries, fill the gaps.
FillSingletons(singletonPackages, coreData, resolutions) ==
  LET entries[i \in 0..Len(coreData)] ==
        IF i = 0 THEN <<>>
        ELSE entries[i - 1] \o coreData[i].value.dependencies
      deps == entries[Len(coreData)]
      f[j \in 0..Len(deps)] ==
        IF j = 0 THEN resolutions
        ELSE FillSingleton(singletonPackages, f[j - 1], deps[j])
  IN  f[Len(deps)]

\* singletonPackages.filter(pkg => !(pkg in corePackage.resolutions))
unresolvedSingletons(singletonPackages, resolutions) ==
  SelectSeq(singletonPackages, LAMBDA pkg : ~DictHas(resolutions, pkg))

\* keep: the package wishes to be among the top-level dependencies.
Keep(meta) ==
  /\ meta.defined
  /\ \/ ~Falsy(meta.coreDependency)
     \/ ~Falsy(meta.extension)
     \/ ~Falsy(meta.mimeExtension)

\* corePackage.dependencies: '~' + version for every package to keep.
TopDependencies(coreData) ==
  LET f[i \in 0..Len(coreData)] ==
        IF i = 0 THEN <<>>
        ELSE IF Keep(coreData[i].value.jupyterlab)
             THEN DictSet(f[i - 1], coreData[i].value.name,
                          Semver("~", coreData[i].value.version))
             ELSE f[i - 1]
  IN  f[Len(coreData)]

\* corePackage.jupyterlab.extensions (item "extension") or mimeExtensions
\* (item "mimeExtension"): for every package to keep, the path of its
\* extension if that is a string, the empty string if it is true.
Extensions(coreData, item) ==
  LET ext(i) == IF item = "extension"
                THEN coreData[i].value.jupyterlab.extension
                ELSE coreData[i].value.jupyterlab.mimeExtension
      f[i \in 0..Len(coreData)] ==
        IF i = 0 THEN <<>>
        ELSE IF ~Keep(coreData[i].value.jupyterlab) THEN f[i - 1]
        ELSE IF ext(i) = JsTrue THEN DictSet(f[i - 1], coreData[i].key, "")
        ELSE IF ~IsString(ext(i)) THEN f[i - 1]
        ELSE DictSet(f[i - 1], coreData[i].key, ext(i))
  IN  f[Len(coreData)]

\* corePackage.jupyterlab.linkedPackages: every readable package of the
\* lerna paths, at its path relative to dev_mode.
LinkedPackages(lerna) ==
  LET f[i \in 0..Len(lerna)] ==
        IF i = 0 THEN <<>>
        ELSE IF Readable(lerna[i])
             THEN DictSet(f[i - 1], lerna[i].name, "../" \o lerna[i].path)
             ELSE f[i - 1]
  IN  f[Len(lerna)]

\* dev_mode/package.json as ensureJupyterlab leaves it in memory.
CorePackage(singletonPackages, core, lerna) ==
  [singletonPackages |-> singletonPackages,
   resolutions |-> FillSingletons(singletonPackages, CoreData(core),
                                  DirectResolutions(CoreData(core))),
   dependencies |-> TopDependencies(CoreData(core)),
   extensions |-> Extensions(CoreData(core), "extension"),
   mimeExtensions |-> Extensions(CoreData(core), "mimeExtension"),
   linkedPackages |-> LinkedPackages(lerna)]

\* ensureJupyterlab throws when a singleton is unresolved.
JupyterlabThrows(corePackage) ==
  Len(unresolvedSingletons(corePackage.singletonPackages,
                           corePackage.resolutions)) > 0

\* -------------------------------------------------------- ensureIntegrity

\* Object.keys(messages).length > 0 at the end of ensureIntegrity, where
\* every step that has messages sets a key of `messages`: `steps` are the
\* message lists of the steps, in order.
AnyMessagesNever(steps) == FALSE

AnyMessages(steps) == \E i \in DOMAIN steps : Len(steps[i]) > 0

\* No call was made yet.
NoRun ==
  [op |-> "none", core |-> <<>>, lerna |-> <<>>, before |-> <<>>,
   dependencies |-> <<>>, messages |-> <<>>, seen |-> {},
   written |-> {}, corePackage |-> CorePackage(<<>>, <<>>, <<>>),
   thrown |-> FALSE, steps |-> <<>>, force |-> FALSE, ran |-> <<>>,
   outcome |-> "none"]

\* ------------------------------------------------------------------- Init

DefaultMetadata ==
  [k \in MetaKeys |->
     IF k \in {"kernelspec", "language_info"} THEN Obj("") ELSE Absent]

Init ==
  /\ store = <<>>
  /\ cells = <<>>
  /\ stack = <<>>
  /\ index = 0
  /\ metadata = DefaultMetadata
  /\ nbformat = MAJOR_VERSION
  /\ nbformatMinor = MINOR_VERSION
  /\ dirty = InitialDirty
  /\ op = "new"
  /\ err = "none"
  /\ ret = RetNone
  /\ arg = NoDoc
  /\ after = "none"
  /\ before = NoList
  /\ pre = [cells |-> <<>>, content |-> <<>>, index |-> 0,
            metadata |-> DefaultMetadata, dirty |-> InitialDirty,
            nbformat |-> MAJOR_VERSION, nbformatMinor |-> MINOR_VERSION,
            isDisposed |-> FALSE, cellsNull |-> FALSE]
  /\ emitted = <<>>
  /\ dialogs = 0
  /\ given = NoKey
  /\ isDisposed = FALSE
  /\ cellsNull = FALSE
  /\ other = <<>>
  /\ InitIcons
  /\ repo = NoRun

\* --------------------------------------------------------------- the calls

\* The calls that change the list, and the loads.
ListCalls == {"push", "insert", "remove", "move"}
LoadCalls == {"fromJSON", "fromString"}

\* The call `o` is an undo or a redo that comes right after a call on the
\* list, or a load, that returned.
Follows(o) ==
  /\ o \in {"undo", "redo"}
  /\ op \in ListCalls \cup LoadCalls \cup {"undo"}
  /\ err = "none"

\* What every call leaves behind: its name, its error, its result, the
\* document or the key and value it was given and the state it started in.
RecordedCall(o, e, r, d, g) ==
  /\ op' = o
  /\ given' = g
  /\ err' = e
  /\ ret' = r
  /\ arg' = d
  /\ after' = IF Follows(o) THEN op ELSE "none"
  /\ before' = IF Follows(o)
               THEN [cells |-> pre.cells, content |-> pre.content,
                     index |-> pre.index]
               ELSE NoList
  /\ pre' = Snapshot
  /\ UNCHANGED <<iconVars, repo>>

\* A call of the model other than dispose: it disposes of nothing, and it
\* leaves the second model alone.
Recorded(o, e, r, d, g) ==
  /\ RecordedCall(o, e, r, d, g)
  /\ UNCHANGED <<isDisposed, cellsNull, other>>

\* A call of the model, of its list or of a cell.
Called(o, e, r, d) == Recorded(o, e, r, d, NoKey)

\* A call of the metadata map with the key `k` and the value `v`.
CalledWith(o, r, k, v) ==
  Recorded(o, "none", r, NoDoc, [NoKey EXCEPT !.key = k, !.value = v])

Model == <<store, cells, stack, index, metadata, nbformat, nbformatMinor, dirty>>

\* What a call delivered and presented before it returned.
Signals(ev, n) == emitted' = ev /\ dialogs' = n

\* A call that raises: nothing but the record of the call changes.
Raise(o, e, d) ==
  Called(o, e, RetNone, d) /\ Signals(<<>>, 0) /\ UNCHANGED Model

\* A list that passes no change on to the model.
CellsChangedSilent(batch) == <<>>

\* The list emits `changed` once for every change of `batch` that holds a
\* value; the model answers each with contentChanged.
RECURSIVE CellsChanged(_)
CellsChanged(batch) ==
  IF batch = <<>> THEN <<>>
  ELSE (IF Head(batch).oldValues = <<>> /\ Head(batch).newValues = <<>>
        THEN <<>> ELSE ContentChanged) \o CellsChanged(Tail(batch))

\* The list changed by `batch`, outside undo and redo.
Changed(newCells, batch) ==
  /\ cells' = newCells
  /\ stack' = Record(stack, index, batch)
  /\ index' = index + 1
  /\ dirty' = DirtyOnCellsChanged
  /\ Signals(CellsChanged(batch), 0)
  /\ UNCHANGED <<store, metadata, nbformat, nbformatMinor>>

\* Every cell there is, the ones that a list holds among them.
FreeCellsAny == 1..Len(store)

\* The cells no list holds: the caller's, to put into a list.
FreeCells == (1..Len(store)) \ (Range(cells) \cup Range(other))

\* A factory that takes every type tag.
InvalidCellTypeNever(t) == FALSE

\* The type tags the factory rejects: all but code, markdown and raw.
InvalidCellType(t) == t \notin CellTypes

\* contentFactory.createCell(type, {}): a new cell that is in no list, of the
\* type asked for; a type other than code, markdown and raw is an error.
createCell(t) ==
  IF InvalidCellType(t)
  THEN /\ UNCHANGED Model
       /\ Signals(<<>>, 0)
       /\ Recorded("createCell", "InvalidCellType", RetNone, NoDoc,
                   [NoKey EXCEPT !.type = t])
  ELSE /\ Len(store) < MaxCells
       /\ store' = Append(store, [type |-> t, text |-> ""])
       /\ UNCHANGED <<cells, stack, index, metadata, nbformat, nbformatMinor,
                      dirty>>
       /\ Signals(<<>>, 0)
       /\ Recorded("createCell", "none", RetValue(Len(store) + 1), NoDoc,
                   [NoKey EXCEPT !.type = t])

\* cell.value.text = t, for a text other than the cell's.
setText(c, t) ==
  /\ store[c].text # t
  /\ store' = [store EXCEPT ![c].text = t]
  /\ dirty' = IF c \in Range(cells) THEN DirtyOnCellContentChanged ELSE dirty
  /\ Signals(IF c \in Range(cells) THEN ContentChanged ELSE <<>>, 0)
  /\ UNCHANGED <<cells, stack, index, metadata, nbformat, nbformatMinor>>
  /\ Called("setText", "none", RetNone, NoDoc)

\* cells.push(cell)
push(c) ==
  /\ index < MaxHist
  /\ Changed(Append(cells, c), <<AddChange(Len(cells), <<c>>)>>)
  /\ Called("push", "none", RetNone, NoDoc)

\* An insert that takes an index past the end for the end.
insertClamped(i, c) ==
  IF i < 0
  THEN /\ Signals(<<>>, 0)
       /\ UNCHANGED Model
       /\ Recorded("insert", "IndexOutOfRange", RetNone, NoDoc,
                   [NoKey EXCEPT !.index = i])
  ELSE /\ index < MaxHist
       /\ Changed(IF i > Len(cells) THEN Append(cells, c)
                  ELSE InsertAt(cells, i, <<c>>),
                  <<AddChange(IF i > Len(cells) THEN Len(cells) ELSE i,
                              <<c>>)>>)
       /\ Recorded("insert", "none", RetNone, NoDoc,
                   [NoKey EXCEPT !.index = i])

\* cells.insert(i, cell)
insert(i, c) ==
  IF i < 0 \/ i > Len(cells)
  THEN /\ Signals(<<>>, 0)
       /\ UNCHANGED Model
       /\ Recorded("insert", "IndexOutOfRange", RetNone, NoDoc,
                   [NoKey EXCEPT !.index = i])
  ELSE /\ index < MaxHist
       /\ Changed(InsertAt(cells, i, <<c>>), <<AddChange(i, <<c>>)>>)
       /\ Recorded("insert", "none", RetNone, NoDoc,
                   [NoKey EXCEPT !.index = i])

\* cells.remove(i)
remove(i) ==
  IF i < 0 \/ i >= Len(cells)
  THEN Raise("remove", "IndexOutOfRange", NoDoc)
  ELSE /\ index < MaxHist
       /\ Changed(RemoveAt(cells, i, 1), <<RemoveChange(i, <<cells[i + 1]>>)>>)
       /\ Called("remove", "none", RetNone, NoDoc)

\* cells.move(f, t), both indices positions of the list
move(f, t) ==
  IF f = t
  THEN /\ UNCHANGED Model
       /\ Signals(<<>>, 0)
       /\ Called("move", "none", RetNone, NoDoc)
  ELSE /\ index < MaxHist
       /\ Changed(MoveIn(cells, f, t), <<MoveChange(f, t, cells[f + 1])>>)
       /\ Called("move", "none", RetNone, NoDoc)

\* The list after undo: the last batch that can be undone is undone.
Undone(cs, st, ix) == IF ix > 0 THEN UndoBatch(cs, st[ix]) ELSE cs

\* The list after redo: the first batch that can be redone is applied again.
Redone(cs, st, ix) == IF ix < Len(st) THEN RedoBatch(cs, st[ix + 1]) ELSE cs

\* An undo that reads the history without looking whether there is any.
undoUnguarded ==
  IF index > 0
  THEN /\ cells' = UndoBatch(cells, stack[index])
       /\ index' = index - 1
       /\ dirty' = IF cells' # cells THEN DirtyOnCellsChanged ELSE dirty
       /\ Signals(CellsChanged(stack[index]), 0)
       /\ UNCHANGED <<store, stack, metadata, nbformat, nbformatMinor>>
       /\ Called("undo", "none", RetNone, NoDoc)
  ELSE Raise("undo", "TypeError", NoDoc)

\* cells.undo(): no history is left untouched; the list emits a change for
\* every value put back, taken out or moved.
undo ==
  /\ cells' = Undone(cells, stack, index)
  /\ index' = IF index > 0 THEN index - 1 ELSE index
  /\ dirty' = IF cells' # cells THEN DirtyOnCellsChanged ELSE dirty
  /\ Signals(IF index > 0 THEN CellsChanged(stack[index]) ELSE <<>>, 0)
  /\ UNCHANGED <<store, stack, metadata, nbformat, nbformatMinor>>
  /\ Called("undo", "none", RetNone, NoDoc)

\* cells.redo()
redo ==
  /\ cells' = Redone(cells, stack, index)
  /\ index' = IF index < Len(stack) THEN index + 1 ELSE index
  /\ dirty' = IF cells' # cells THEN DirtyOnCellsChanged ELSE dirty
  /\ Signals(IF index < Len(stack) THEN CellsChanged(stack[index + 1])
             ELSE <<>>, 0)
  /\ UNCHANGED <<store, stack, metadata, nbformat, nbformatMinor>>
  /\ Called("redo", "none", RetNone, NoDoc)

\* The cell models a load creates, one per cell of the document.
LoadedStore(st, d) ==
  st \o [i \in 1..Len(d.cells) |->
           [type |-> d.cells[i].cell_type, text |-> d.cells[i].source]]

\* A load that keeps the cells the list held.
LoadedCellsMerged(st, d) == cells \o [i \in 1..Len(d.cells) |-> Len(st) + i]

\* The list after a load: the new cells, in the document's order.
LoadedCells(st, d) == [i \in 1..Len(d.cells) |-> Len(st) + i]

\* The metadata after a load: the document's, with the default kernelspec
\* and language_info where the document has none.
LoadedMetadata(d) ==
  [k \in MetaKeys |->
     IF d.metadata[k] # Absent THEN d.metadata[k] ELSE DefaultMetadata[k]]

\* A load that takes the original format the document records for its
\* format.
LoadedNbformatOriginal(d) ==
  IF d.orig_nbformat # 0 THEN d.orig_nbformat ELSE d.nbformat

\* The format version after a load.
LoadedNbformat(d) ==
  IF d.orig_nbformat # 0 /\ d.orig_nbformat < MAJOR_VERSION
  THEN MAJOR_VERSION
  ELSE d.nbformat

\* A load that presents the dialog for every document.
FormatDialogsAlways(d) == 1

\* The dialogs a load presents: one when the document records an original
\* format older than the library's.
FormatDialogs(d) ==
  IF d.orig_nbformat # 0 /\ d.orig_nbformat < MAJOR_VERSION THEN 1 ELSE 0

\* The keys of the metadata in the order a load sets them.
MetaKeySeq == <<"kernelspec", "language_info", "foo">>

\* metadata.changed, and the model's contentChanged, for every key of `ks`
\* that a load gives another value.
RECURSIVE LoadedMetadataChanged(_, _, _)
LoadedMetadataChanged(ks, old, new) ==
  IF ks = <<>> THEN <<>>
  ELSE (IF old[Head(ks)] # new[Head(ks)]
        THEN MetadataChanged(Head(ks), old[Head(ks)], new[Head(ks)])
        ELSE <<>>) \o LoadedMetadataChanged(Tail(ks), old, new)

\* The cells and the metadata are replaced by those of `d`; `g` is what
\* the caller gave.
Replace(o, d, g) ==
  /\ Len(store) + Len(d.cells) <= MaxCells
  /\ index < MaxHist
  /\ store' = LoadedStore(store, d)
  /\ cells' = LoadedCells(store, d)
  /\ stack' = LoadHistory(stack, index, LoadBatch(cells, cells'))
  /\ index' = Len(stack')
  /\ metadata' = LoadedMetadata(d)
  /\ nbformat' = LoadedNbformat(d)
  /\ nbformatMinor' = d.nbformat_minor
  /\ dirty' = DirtyOnLoad
  /\ Signals(CellsChanged(LoadBatch(cells, cells'))
               \o LoadedMetadataChanged(MetaKeySeq, metadata, metadata'),
             FormatDialogs(d))
  /\ Recorded(o, "none", RetNone, d, g)

\* A load that does not look at the document before it replaces.
LoadUnchecked(o, d, g) == Replace(o, d, g)

\* The body of fromJSON, called as `o`.
Load(o, d, g) ==
  IF ~d.hasCells
  THEN /\ Recorded(o, "MalformedDocument", RetNone, d, g)
       /\ Signals(<<>>, 0)
       /\ UNCHANGED Model
  ELSE Replace(o, d, g)

\* model.fromJSON(d)
fromJSON(d) == Load("fromJSON", d, NoKey)

\* A parse that yields an empty document for every text.
JSONparseEmpty(txt) == Doc(<<>>, NoMeta)

\* JSON.parse(txt), for a text that is JSON.
JSONparse(txt) == txt.value

\* model.fromString(txt)
fromString(txt) ==
  IF ~txt.valid
  THEN /\ Recorded("fromString", "ParseError", RetNone, NoDoc,
                   [NoKey EXCEPT !.text = txt])
       /\ Signals(<<>>, 0)
       /\ UNCHANGED Model
  ELSE Load("fromString", JSONparse(txt), [NoKey EXCEPT !.text = txt])

\* A serialization of every cell model there is, in the list or not.
SerializedCellsOfStore(cs, st) ==
  [i \in 1..Len(st) |-> DocCell(st[i].type, st[i].text)]

\* cell.toJSON() for each cell of the list, in order.
SerializedCells(cs, st) ==
  [i \in 1..Len(cs) |-> DocCell(st[cs[i]].type, st[cs[i]].text)]

\* The document toJSON builds from the model.
Serialized ==
  [hasCells |-> TRUE,
   cells |-> SerializedCells(cells, store),
   metadata |-> metadata,
   nbformat |-> nbformat, nbformat_minor |-> nbformatMinor,
   orig_nbformat |-> 0]

\* The document of the fromJSON that was the last call, if it was.
JustLoaded == IF op = "fromJSON" /\ err = "none" THEN arg ELSE NoDoc

\* A toJSON that marks the model dirty.
toJSONDirty ==
  /\ dirty' = TRUE
  /\ UNCHANGED <<store, cells, stack, index, metadata, nbformat, nbformatMinor>>
  /\ Signals(<<>>, 0)
  /\ Called("toJSON", "none", RetDoc(Serialized), JustLoaded)

\* model.toJSON()
toJSON ==
  /\ UNCHANGED Model
  /\ Signals(<<>>, 0)
  /\ Called("toJSON", "none", RetDoc(Serialized), JustLoaded)

\* model.toString()
toString ==
  /\ UNCHANGED Model
  /\ Signals(<<>>, 0)
  /\ Called("toString", "none", RetText(JSONstringify(Serialized)), NoDoc)

\* model.metadata.get(k)
metadataGet(k) ==
  /\ UNCHANGED Model
  /\ Signals(<<>>, 0)
  /\ CalledWith("metadata.get", RetValue(metadata[k]), k, Absent)

\* model.metadata.has(k)
metadataHas(k) ==
  /\ UNCHANGED Model
  /\ Signals(<<>>, 0)
  /\ CalledWith("metadata.has", RetBool(metadata[k] # Absent), k, Absent)

\* model.metadata.set(k, v): a value equal to the key's is not set again.
metadataSet(k, v) ==
  /\ IF ValueChanges(metadata[k], v)
     THEN /\ metadata' = [metadata EXCEPT ![k] = v]
          /\ dirty' = DirtyOnMetadataChanged
          /\ Signals(MetadataChanged(k, metadata[k], v), 0)
     ELSE /\ UNCHANGED <<metadata, dirty>>
          /\ Signals(<<>>, 0)
  /\ UNCHANGED <<store, cells, stack, index, nbformat, nbformatMinor>>
  /\ CalledWith("metadata.set", RetNone, k, v)

\* A delete that reports every key as removed.
DeleteChangesAlways(old) == TRUE

\* Deleting a key that holds `old` changes the map when the key is there.
DeleteChanges(old) == old # Absent

\* model.metadata.delete(k)
metadataDelete(k) ==
  /\ IF DeleteChanges(metadata[k])
     THEN /\ metadata' = [metadata EXCEPT ![k] = Absent]
          /\ dirty' = DirtyOnMetadataChanged
          /\ Signals(MetadataChanged(k, metadata[k], Absent), 0)
     ELSE /\ UNCHANGED <<metadata, dirty>>
          /\ Signals(<<>>, 0)
  /\ UNCHANGED <<store, cells, stack, index, nbformat, nbformatMinor>>
  /\ CalledWith("metadata.delete", RetNone, k, Absent)

\* model.metadata.size
metadataSize == Cardinality({k \in MetaKeys : metadata[k] # Absent})

\* A view that takes whatever the key holds for an object with a name.
NameOfAny(x) == x.v

\* The name of the object a metadata key holds: the empty string when the
\* key holds no object or the object has no name.
NameOf(x) == IF x.kind = "obj" THEN x.v ELSE ""

\* model.defaultKernelName
defaultKernelName ==
  /\ UNCHANGED Model
  /\ Signals(<<>>, 0)
  /\ Called("defaultKernelName", "none",
            RetValue(Str(NameOf(metadata["kernelspec"]))), NoDoc)

\* model.defaultKernelLanguage
defaultKernelLanguage ==
  /\ UNCHANGED Model
  /\ Signals(<<>>, 0)
  /\ Called("defaultKernelLanguage", "none",
            RetValue(Str(NameOf(metadata["language_info"]))), NoDoc)

\* model.dirty = b
setDirty(b) ==
  /\ dirty' = b
  /\ Signals(<<>>, 0)
  /\ UNCHANGED <<store, cells, stack, index, metadata, nbformat, nbformatMinor>>
  /\ Called("dirty", "none", RetNone, NoDoc)

Next ==
  \/ \E t \in CallerTypes : createCell(t)
  \/ \E c \in 1..Len(store), t \in Texts : setText(c, t)
  \/ \E c \in FreeCells : push(c)
  \/ \E c \in FreeCells, i \in 0..(Len(cells) + 1) : insert(i, c)
  \/ \E i \in 0..Len(cells) : remove(i)
  \/ \E f \in 0..(Len(cells) - 1), t \in 0..(Len(cells) - 1) : move(f, t)
  \/ undo
  \/ redo
  \/ \E d \in Docs : fromJSON(d)
  \/ \E txt \in DocTexts : fromString(txt)
  \/ toJSON
  \/ toString
  \/ \E k \in CallerKeys : metadataGet(k)
  \/ \E k \in CallerKeys : metadataHas(k)
  \/ \E k \in CallerKeys, v \in CallerValues : metadataSet(k, v)
  \/ \E b \in BOOLEAN : setDirty(b)

Spec == Init /\ [][Next]_vars

\* ------------------------------------------------- the metadata map alone

\* The keys and the values of the calls on model.metadata in the tests.
SetKeys == {"foo", "kernelspec"}
SetValues == {Str("bar"), Num("1"), Obj("python3")}

NextMetadata ==
  \/ \E k \in SetKeys : metadataDelete(k)
  \/ \E k \in SetKeys : metadataGet(k)
  \/ \E k \in SetKeys : metadataHas(k)
  \/ \E k \in SetKeys, v \in SetValues : metadataSet(k, v)
  \/ \E b \in BOOLEAN : setDirty(b)

SpecMetadata == Init /\ [][NextMetadata]_vars

\* --------------------------------------------------------- the list alone

NextList ==
  \/ \E t \in CallerTypes : createCell(t)
  \/ \E c \in FreeCells : push(c)
  \/ \E c \in FreeCells, i \in (-1)..(Len(cells) + 2) : insert(i, c)
  \/ \E i \in 0..(Len(cells) - 1) : remove(i)
  \/ \E f \in 0..(Len(cells) - 1), t \in 0..(Len(cells) - 1) : move(f, t)
  \/ undo
  \/ redo
  \/ \E b \in {FALSE} : setDirty(b)

SpecList == Init /\ [][NextList]_vars

\* --------------------------------------------------------- a second model

\* other.cells.push(cell), for a cell no list holds
otherPush(c) ==
  /\ other' = Append(other, c)
  /\ UNCHANGED <<Model, isDisposed, cellsNull>>
  /\ Signals(<<>>, 0)
  /\ RecordedCall("other.push", "none", RetNone, NoDoc, NoKey)

\* other.cells.remove(i)
otherRemove(i) ==
  /\ other' = RemoveAt(other, i, 1)
  /\ UNCHANGED <<Model, isDisposed, cellsNull>>
  /\ Signals(<<>>, 0)
  /\ RecordedCall("other.remove", "none", RetNone, NoDoc, NoKey)

\* The documents loaded next to a second model.
OwnedDocs == {Doc(<<DocCell("code", "foo")>>, NoMeta)}

NextOwnership ==
  \/ \E t \in CallerTypes : createCell(t)
  \/ \E c \in FreeCells : push(c)
  \/ \E c \in FreeCells, i \in 0..Len(cells) : insert(i, c)
  \/ \E i \in 0..(Len(cells) - 1) : remove(i)
  \/ \E f \in 0..(Len(cells) - 1), t \in 0..(Len(cells) - 1) : move(f, t)
  \/ undo
  \/ redo
  \/ \E d \in OwnedDocs : fromJSON(d)
  \/ \E c \in FreeCells : otherPush(c)
  \/ \E i \in 0..(Len(other) - 1) : otherRemove(i)

SpecOwnership == Init /\ [][NextOwnership]_vars

\* ------------------------------------------------------ the content factory

\* The type tags asked of the factory: the three cell types and one that is
\* none of them.
RequestedTypes == CellTypes \cup {"heading"}

NextFactory ==
  \/ \E t \in RequestedTypes : createCell(t)
  \/ \E c \in 1..Len(store), t \in Texts : setText(c, t)
  \/ \E c \in FreeCells : push(c)
  \/ \E i \in 0..(Len(cells) - 1) : remove(i)
  \/ undo
  \/ redo
  \/ \E d \in OwnedDocs : fromJSON(d)

SpecFactory == Init /\ [][NextFactory]_vars

\* ------------------------------------------- the views of the kernel keys

\* The languagePreference a model is constructed with: none, or a name.
LanguagePreferences == {Absent, Str("python"), Str("foo")}

\* The metadata of new NotebookModel({ languagePreference }).
ConstructedMetadata(lang) ==
  [DefaultMetadata EXCEPT
     !["language_info"] = IF lang = Absent THEN Obj("") ELSE Obj(lang.v)]

\* new NotebookModel({ languagePreference }), remembered in `given`.
InitLanguage ==
  \E lang \in LanguagePreferences :
    /\ store = <<>>
    /\ cells = <<>>
    /\ stack = <<>>
    /\ index = 0
    /\ metadata = ConstructedMetadata(lang)
    /\ nbformat = MAJOR_VERSION
    /\ nbformatMinor = MINOR_VERSION
    /\ dirty = InitialDirty
    /\ op = "new"
    /\ err = "none"
    /\ ret = RetNone
    /\ arg = NoDoc
    /\ after = "none"
    /\ before = NoList
    /\ pre = [cells |-> <<>>, content |-> <<>>, index |-> 0,
              metadata |-> ConstructedMetadata(lang), dirty |-> InitialDirty,
              nbformat |-> MAJOR_VERSION, nbformatMinor |-> MINOR_VERSION,
              isDisposed |-> FALSE, cellsNull |-> FALSE]
    /\ emitted = <<>>
    /\ dialogs = 0
    /\ given = [NoKey EXCEPT !.value = lang]
    /\ isDisposed = FALSE
    /\ cellsNull = FALSE
    /\ other = <<>>
    /\ InitIcons
    /\ repo = NoRun

\* The kernel keys and what the callers store under them.
KernelKeys == {"kernelspec", "language_info"}
KernelValues == {Obj("python3"), Obj("python"), Nameless, Str("bar")}

NextKernel ==
  \/ \E k \in KernelKeys, v \in KernelValues : metadataSet(k, v)
  \/ \E k \in KernelKeys : metadataDelete(k)
  \/ \E d \in {Doc(<<>>, NoMeta)} : fromJSON(d)
  \/ defaultKernelName
  \/ defaultKernelLanguage

SpecKernel == InitLanguage /\ [][NextKernel]_vars

\* ------------------------------------------------------ the model disposed

\* A dispose that keeps the list.
ReleasedCellsKept == cellsNull

\* model.cells after the first dispose: null.
ReleasedCells == TRUE

\* model.dispose(): the list is released and the model is disposed; a
\* dispose of a disposed model does nothing.
dispose ==
  /\ IF isDisposed
     THEN UNCHANGED <<Model, isDisposed, cellsNull>>
     ELSE /\ isDisposed' = TRUE
          /\ cellsNull' = ReleasedCells
          /\ cells' = <<>>
          /\ stack' = <<>>
          /\ index' = 0
          /\ UNCHANGED <<store, metadata, nbformat, nbformatMinor, dirty>>
  /\ Signals(<<>>, 0)
  /\ UNCHANGED other
  /\ RecordedCall("dispose", "none", RetNone, NoDoc, NoKey)

\* A model that does not look whether it is disposed.
OnLiveUnguarded(o, A) == A

\* The mutation `A`, called as `o`: a disposed model reports the use and
\* changes nothing.
OnLive(o, A) ==
  IF isDisposed THEN Raise(o, "UseAfterDispose", NoDoc) ELSE A

NextDispose ==
  \/ dispose
  \/ \E t \in CallerTypes : createCell(t)
  \/ \E c \in FreeCells : OnLive("push", push(c))
  \/ OnLive("undo", undo)
  \/ \E d \in Docs : OnLive("fromJSON", fromJSON(d))
  \/ \E txt \in DocTexts : OnLive("fromString", fromString(txt))
  \/ \E k \in CallerKeys, v \in CallerValues :
       OnLive("metadata.set", metadataSet(k, v))
  \/ \E b \in BOOLEAN : OnLive("dirty", setDirty(b))

SpecDispose == Init /\ [][NextDispose]_vars

\* ------------------------------------------------ documents of all formats

\* The formats of the documents the library reads: its own and the one
\* before; their minor versions; and the original format metadata.orig_nbformat
\* records, 0 for a document that records none.
Formats == {MAJOR_VERSION - 1, MAJOR_VERSION}
Minors == {0, MINOR_VERSION}
OrigFormats == {0, 1, MAJOR_VERSION, MAJOR_VERSION + 1}

VersionDoc(maj, min, orig) ==
  [Doc(<<DocCell("code", "foo")>>, NoMeta)
     EXCEPT !.nbformat = maj, !.nbformat_minor = min, !.orig_nbformat = orig]

VersionDocs ==
  {VersionDoc(maj, min, orig) :
     maj \in Formats, min \in Minors, orig \in OrigFormats}

NextFormat ==
  \/ \E d \in VersionDocs : fromJSON(d)
  \/ \E d \in VersionDocs : fromString(JSONstringify(d))
  \/ undo
  \/ toJSON
  \/ \E b \in BOOLEAN : setDirty(b)

SpecFormat == Init /\ [][NextFormat]_vars

\* ----------------------------------------------------- the calls of icons

\* The variables of the notebook model.
modelVars ==
  <<store, cells, stack, index, metadata, nbformat, nbformatMinor, dirty, op,
    err, ret, arg, after, before, pre, emitted, dialogs, given, isDisposed,
    cellsNull, other>>

\* The body of the constructor, new LabIcon({name, svgstr, _loading}), for a
\* call that `call` describes: badIcon if the name or the svg string is empty,
\* the registered icon with its svg replaced if there is one of that name
\* (with a warning unless _loading was passed), a new registered icon else.
Construct(call, n, s, l) ==
  IF n = "" \/ s = ""
  THEN /\ UNCHANGED <<heap, instances, containers, uuids>>
       /\ icall' = [call EXCEPT !.ret = badIcon, !.log = Append(@, "error")]
  ELSE IF MapHas(instances, n)
  THEN /\ uuids < MaxUuid
       /\ heap' = svgstrHeap(heap, containers, debug, MapGet(instances, n),
                             s, uuids + 1)
       /\ containers' = svgstrContainers(heap, containers, debug,
                                         MapGet(instances, n), s, uuids + 1)
       /\ uuids' = uuids + 1
       /\ UNCHANGED instances
       /\ icall' = [call EXCEPT
                      !.ret = MapGet(instances, n),
                      !.emitted = 1,
                      !.log = IF l THEN @ ELSE Append(@, "warn: redefining")]
  ELSE /\ Len(heap) < MaxObjects
       /\ uuids < MaxUuid
       /\ heap' = Constructed(heap, containers, debug, n, s, l, uuids + 1)
       /\ containers' = svgstrContainers(
                          Append(heap, [Constructing EXCEPT
                                          !.loading = Own(l),
                                          !.name = Own(n)]),
                          containers, debug, Len(heap) + 1, s, uuids + 1)
       /\ uuids' = uuids + 1
       /\ instances' = MapSet(instances, n, Len(heap) + 1)
       /\ icall' = [call EXCEPT !.ret = Len(heap) + 1, !.emitted = 1]

\* new LabIcon({name, svgstr, _loading})
constructor(n, s, l) ==
  /\ Construct([NoCall EXCEPT !.op = "new", !.name = n, !.svgstr = s,
                              !.loading = l], n, s, l)
  /\ UNCHANGED <<debug, modelVars, repo>>

\* LabIcon.resolve({icon}), for an icon that is a LabIcon (`x`), a name (`n`)
\* or a pair of a name and an svg string.
resolve(k, x, n, s) ==
  /\ UNCHANGED <<debug, modelVars, repo>>
  /\ IF k = "icon"
     THEN /\ UNCHANGED <<heap, instances, containers, uuids>>
          /\ icall' = [NoCall EXCEPT !.op = "resolve", !.kind = k,
                                     !.target = x, !.ret = x]
     ELSE IF k = "name"
     THEN IF MapHas(instances, n)
          THEN /\ UNCHANGED <<heap, instances, containers, uuids>>
               /\ icall' = [NoCall EXCEPT !.op = "resolve", !.kind = k,
                                          !.name = n,
                                          !.ret = MapGet(instances, n)]
          ELSE Construct([NoCall EXCEPT
                            !.op = "resolve", !.kind = k, !.name = n,
                            !.log = IF debug THEN <<"warn: lookup">>
                                    ELSE <<>>],
                         n, refreshSvgstr, TRUE)
     ELSE Construct([NoCall EXCEPT !.op = "resolve", !.kind = k, !.name = n,
                                   !.svgstr = s], n, s, FALSE)

\* icon.bindprops(props): a view of the icon `x`.
bindprops(x, p) ==
  /\ Len(heap) < MaxObjects
  /\ heap' = Append(heap, [ObjectCreate(x) EXCEPT !.props = Own(p)])
  /\ icall' = [NoCall EXCEPT !.op = "bindprops", !.target = x,
                             !.ret = Len(heap) + 1]
  /\ UNCHANGED <<instances, containers, uuids, debug, modelVars, repo>>

\* icon.element({container, label, title, className}), with container 0 for
\* none: the node already in the container if it is the first child and the
\* icon's, an empty div if the svg is null, else a copy of the icon's svg
\* element, put after the label into the container, which loses its children
\* and gets the title and the class. (The class that LabIconStyle makes of
\* the style props is left out.)
element(x, c, p) ==
  /\ UNCHANGED <<instances, uuids, debug, modelVars, repo>>
  /\ IF c # 0 /\ FirstChild(containers[c]).iconId = Get(heap, x, "uuid")
     THEN /\ UNCHANGED <<heap, containers>>
          /\ icall' = [NoCall EXCEPT !.op = "element", !.target = x,
                                     !.container = c, !.props = p,
                                     !.before = containers[c],
                                     !.kind = "kept",
                                     !.el = FirstChild(containers[c])]
     ELSE /\ heap' = svgElement(heap, debug, x)
          /\ IF Get(heap', x, "svgElement") = Null
             THEN /\ UNCHANGED containers
                  /\ icall' = [NoCall EXCEPT !.op = "element", !.target = x,
                                             !.container = c, !.props = p,
                                             !.before =
                                               IF c = 0 THEN EmptyContainer
                                               ELSE containers[c],
                                             !.kind = "blank", !.el = Div]
             ELSE /\ containers' =
                       IF c = 0
                       THEN containers
                       ELSE LET q == Spread(Get(heap, x, "props"), p)
                            IN  [containers EXCEPT
                                   ![c] = Container(
                                            q.label,
                                            Get(heap', x, "svgElement"),
                                            IF q.title # "" THEN q.title
                                            ELSE @.title,
                                            IF q.className # ""
                                            THEN q.className
                                            ELSE @.className)]
                  /\ icall' = [NoCall EXCEPT
                                 !.op = "element", !.target = x,
                                 !.container = c, !.props = p,
                                 !.before = IF c = 0 THEN EmptyContainer
                                            ELSE containers[c],
                                 !.kind = "rendered",
                                 !.el = Get(heap', x, "svgElement")]

\* The function component icon.react, rendered with no container: nothing if
\* the inner html or the attributes of the svg are null, else the svg.
react(x) ==
  /\ UNCHANGED <<instances, containers, uuids, debug, modelVars, repo>>
  /\ heap' = IF Get(svgInnerHTML(heap, debug, x), x, "svgInnerHTML") = Null
             THEN svgInnerHTML(heap, debug, x)
             ELSE svgReactAttrs(svgInnerHTML(heap, debug, x), debug, x)
  /\ icall' = [NoCall EXCEPT
                 !.op = "react", !.target = x,
                 !.kind = IF Get(heap', x, "svgInnerHTML") = Null
                          THEN "blank" ELSE "rendered",
                 !.el = Get(heap', x, "svgInnerHTML")]

\* icon.svgstr = svgstr
svgstr(x, s) ==
  /\ uuids < MaxUuid
  /\ heap' = svgstrHeap(heap, containers, debug, x, s, uuids + 1)
  /\ containers' = svgstrContainers(heap, containers, debug, x, s, uuids + 1)
  /\ uuids' = uuids + 1
  /\ icall' = [NoCall EXCEPT !.op = "svgstr", !.target = x, !.svgstr = s,
                             !.was = Get(heap, x, "svgstr"), !.emitted = 1]
  /\ UNCHANGED <<instances, debug, modelVars, repo>>

\* LabIcon.toggleDebug(debug): the value given, or the other one if none is.
toggleDebug(given_, d) ==
  /\ debug' = IF given_ THEN d ELSE ~debug
  /\ icall' = [NoCall EXCEPT !.op = "toggleDebug"]
  /\ UNCHANGED <<instances, heap, containers, uuids, modelVars, repo>>

\* The names and the svg strings that callers pass.
IconNames == {"", "a", "b"}
Svgstrs == {"", "one.svg", "two.svg"}

\* The registry: icons are made and resolved.
NextRegistry ==
  \/ \E n \in IconNames, s \in Svgstrs, l \in BOOLEAN : constructor(n, s, l)
  \/ \E x \in DOMAIN heap : resolve("icon", x, "", "")
  \/ \E n \in IconNames : resolve("name", 0, n, "")
  \/ \E n \in IconNames, s \in Svgstrs : resolve("pair", 0, n, s)

SpecRegistry == Init /\ [][NextRegistry]_vars

\* The icons a caller made, and their views.
Made == DOMAIN heap \ {badIcon, blankIcon}

\* The views: an icon is made, bound, rendered and given other svg strings.
NextViews ==
  \/ \E s \in Svgstrs \ {""} : constructor("a", s, FALSE)
  \/ \E x \in Made : bindprops(x, AllProps)
  \/ \E x \in Made, c \in 0..MaxContainers : element(x, c, NoProps)
  \/ \E x \in Made, s \in Svgstrs \ {""} : svgstr(x, s)

SpecViews == Init /\ [][NextViews]_vars

\* The placeholders: names are resolved, rendered and defined.
NextLoading ==
  \/ \E n \in {"", "a"} : resolve("name", 0, n, "")
  \/ \E s \in Svgstrs \ {""}, l \in BOOLEAN : constructor("a", s, l)
  \/ \E x \in Made, c \in 0..MaxContainers : element(x, c, NoProps)
  \/ \E x \in Made : react(x)

SpecLoading == Init /\ [][NextLoading]_vars

\* The svg strings of an icon that is rendered: one of them does not parse.
RenderedSvgstrs == {"one.svg", "two.svg", "malformed"}

\* The rendering: an icon is made, rendered into a container or by React,
\* given other svg strings, and debug is switched.
NextRender ==
  \/ \E s \in RenderedSvgstrs : constructor("a", s, FALSE)
  \/ \E x \in Made, c \in 0..MaxContainers, p \in {NoProps, AllProps} :
       element(x, c, p)
  \/ \E x \in Made : react(x)
  \/ \E x \in Made, s \in RenderedSvgstrs : svgstr(x, s)
  \/ \E g \in BOOLEAN, d \in BOOLEAN : toggleDebug(g, d)

SpecRender == Init /\ [][NextRender]_vars

\* ------------------------------------- the calls of the integrity tool

\* The tool runs once in a process (`if (require.main === module)`): each
\* call below is the one call of a process that made none yet.

\* ensureMetaPackage(), where `core` are the core paths, each with the name
\* that pkgNames has for it and the version that pkgData has, and `deps` are
\* the dependencies that packages/metapackage/package.json has.
ensureMetaPackage(core, deps) ==
  LET st == MetaPackageLoops(core, deps)
  IN  /\ repo.op = "none"
      /\ repo' = [NoRun EXCEPT
                    !.op = "ensureMetaPackage",
                    !.core = core,
                    !.before = deps,
                    !.dependencies = st.dependencies,
                    !.messages = st.messages,
                    !.seen = st.seen,
                    !.written = IF Len(st.messages) > 0
                                THEN {"packages/metapackage/package.json"}
                                ELSE {},
                    !.outcome = "returns"]
      /\ UNCHANGED <<modelVars, iconVars>>

\* ensureJupyterlab(), where `singletonPackages` is the list that
\* dev_mode/package.json has, `core` and `lerna` are the packages at the core
\* paths and at the lerna paths, and `changed` is what writePackageData
\* returns if it is called.
ensureJupyterlab(singletonPackages, core, lerna, changed) ==
  LET corePackage == CorePackage(singletonPackages, core, lerna)
      thrown == JupyterlabThrows(corePackage)
  IN  /\ repo.op = "none"
      /\ repo' = [NoRun EXCEPT
                    !.op = "ensureJupyterlab",
                    !.core = core,
                    !.lerna = lerna,
                    !.corePackage = corePackage,
                    !.thrown = thrown,
                    !.written = IF thrown THEN {}
                                ELSE {"dev_mode/package.json"},
                    !.messages = IF ~thrown /\ changed
                                 THEN <<"Updated dev mode">> ELSE <<>>,
                    !.outcome = IF thrown THEN "throws" ELSE "returns"]
      /\ UNCHANGED <<modelVars, iconVars>>

\* The paths of the two mock packages that ensureIntegrity adds to the lerna
\* paths.
MockPackages ==
  <<Package("jupyterlab/tests/mock_packages/extension", "mock-extension",
            "0.1", <<>>, NoJupyterlab),
    Package("jupyterlab/tests/mock_packages/mimeextension",
            "mock-mimeextension", "0.1", <<>>, NoJupyterlab)>>

\* utils.getCorePaths(): the paths under packages/.
CorePaths == {mpPath, "packages/a", "packages/b", "packages/u"}

getCorePaths(lerna) == SelectSeq(lerna, LAMBDA pkg : pkg.path \in CorePaths)

\* Object.keys(locals): the names of the readable packages, in order.
Locals(paths) ==
  DictKeys(LET f[i \in 0..Len(paths)] ==
                 IF i = 0 THEN <<>>
                 ELSE IF Readable(paths[i])
                      THEN DictSet(f[i - 1], paths[i].name, paths[i].path)
                      ELSE f[i - 1]
           IN  f[Len(paths)])

\* ensureIntegrity(), where `lerna` are the packages at the lerna paths,
\* `deps` the dependencies of the metapackage manifest, `singletons` the
\* singletonPackages of dev_mode/package.json, `noisy` the packages for which
\* ensurePackage has messages, `ui` and `pure` whether ensureUiComponents
\* and ensureUiComponentsPure have messages, `top` and `dev` what
\* writePackageData returns for package.json and dev_mode/package.json, and
\* `force` whether --force is among the arguments.
ensureIntegrity(lerna, deps, singletons, noisy, ui, pure, top, dev, force) ==
  LET locals == Locals(lerna \o MockPackages)
      core == getCorePaths(lerna)
      meta == MetaPackageLoops(core, deps)
      validated == SelectSeq(locals, LAMBDA name : name # "application-top")
      ensured == [i \in DOMAIN validated |->
                    IF validated[i] \in noisy
                    THEN <<"Updated package.json">> ELSE <<>>]
      corePackage == CorePackage(singletons, core, lerna)
      thrown == JupyterlabThrows(corePackage)
      earlier == <<meta.messages>> \o ensured
                \o <<IF ui THEN <<"Updated ./src/icon/iconimports.ts">>
                     ELSE <<>>,
                     IF pure THEN <<"Updated ./src/icon/iconimports.ts">>
                     ELSE <<>>,
                     IF top THEN <<"Update package.json">> ELSE <<>>>>
      steps == IF thrown THEN earlier
               ELSE Append(earlier, IF dev THEN <<"Updated dev mode">>
                                   ELSE <<>>)
  IN  /\ repo.op = "none"
      /\ repo' = [NoRun EXCEPT
                    !.op = "ensureIntegrity",
                    !.core = core,
                    !.lerna = lerna,
                    !.before = deps,
                    !.dependencies = meta.dependencies,
                    !.messages = meta.messages,
                    !.seen = meta.seen,
                    !.corePackage = corePackage,
                    !.thrown = thrown,
                    !.written =
                      (IF Len(meta.messages) > 0
                       THEN {"packages/metapackage/package.json"} ELSE {})
                      \cup {"package.json"}
                      \cup (IF thrown THEN {} ELSE {"dev_mode/package.json"}),
                    !.steps = steps,
                    !.force = force,
                    !.ran = IF ~thrown /\ AnyMessages(steps) /\ ~force
                            THEN <<"jlpm install">> ELSE <<>>,
                    !.outcome = IF thrown THEN "rejected"
                                ELSE IF ~AnyMessages(steps) THEN "true"
                                ELSE IF force THEN "exit 1"
                                ELSE "false"]
      /\ UNCHANGED <<modelVars, iconVars>>

\* The packages the calls are given.
metapackage == Package(mpPath, "metapackage", "2.0", <<>>, NoJupyterlab)

applicationTop == Package("dev_mode", "application-top", "2.0", <<>>, NoJupyterlab)

unreadable == Package("packages/u", NoValue, "", <<>>, NoJupyterlab)

PackagesA ==
  {Package("packages/a", "a", "1.0", deps, meta) :
     deps \in {<<>>, <<Entry("s", "^3.0")>>},
     meta \in {NoJupyterlab, Meta(JsTrue, NoValue, NoValue),
               Meta(NoValue, JsTrue, "lib/mime.js")}}

PackagesB ==
  {Package("packages/b", "b", "1.1", deps, meta) :
     deps \in {<<>>, <<Entry("a", "^0.9"), Entry("s", "^4.0")>>},
     meta \in {NoJupyterlab, Meta(JsFalse, "", NoValue)}}

\* Lists of core packages: each of a, b and the unreadable one is there or
\* not, after the metapackage if `withMeta`.
CoreLists(pas, pbs, withMeta) ==
  {m \o a \o b \o u :
     m \in IF withMeta THEN {<<>>, <<metapackage>>} ELSE {<<>>},
     a \in {<<>>} \cup {<<p>> : p \in pas},
     b \in {<<>>} \cup {<<p>> : p \in pbs},
     u \in {<<>>, <<unreadable>>}}

PlainA == Package("packages/a", "a", "1.0", <<>>, NoJupyterlab)

PlainB == Package("packages/b", "b", "1.1", <<>>, NoJupyterlab)

\* The dependencies a metapackage manifest has: for each of a, b and x
\* none, a range, or the empty string.
ManifestDependencies ==
  {a \o b \o x :
     a \in {<<>>, <<Entry("a", "^1.0")>>, <<Entry("a", "")>>},
     b \in {<<>>, <<Entry("b", "^1.0")>>},
     x \in {<<>>, <<Entry("x", "^0.1")>>}}

SingletonLists == {<<>>, <<"s">>, <<"a", "s">>, <<"s", "t">>}

NextMetaPackage ==
  \E core \in CoreLists({PlainA}, {PlainB}, TRUE),
     deps \in ManifestDependencies :
    ensureMetaPackage(core, deps)

SpecMetaPackage == Init /\ [][NextMetaPackage]_vars

NextJupyterlab ==
  \E singletonPackages \in SingletonLists,
     core \in CoreLists(PackagesA, PackagesB, FALSE),
     changed \in BOOLEAN :
    ensureJupyterlab(singletonPackages, core, Append(core, applicationTop),
                     changed)

SpecJupyterlab == Init /\ [][NextJupyterlab]_vars

NextIntegrity ==
  \E core \in CoreLists({PlainA}, {Package("packages/b", "b", "1.1",
                                           <<Entry("s", "^4.0")>>, NoJupyterlab)},
                        TRUE),
     deps \in {<<>>, <<Entry("a", "^1.0")>>},
     singletonPackages \in {<<>>, <<"s">>},
     noisy \in SUBSET {"a", "application-top"},
     ui \in BOOLEAN, pure \in BOOLEAN, top \in BOOLEAN, dev \in BOOLEAN,
     force \in BOOLEAN :
    ensureIntegrity(Append(core, applicationTop), deps, singletonPackages,
                    noisy, ui, pure, top, dev, force)

SpecIntegrity == Init /\ [][NextIntegrity]_vars

\* ------------------------------------------------------------- the claims

Returned == err = "none"
Loaded == op \in LoadCalls /\ Returned
ListContent == Content(cells, store)

\* C1: after a push, insert, remove or move that changed the list, after an
\* edit of the text of a cell of the list, and after a metadata.set that
\* changed a value, dirty is true, whatever it was before.
C1_MutationSetsDirty ==
  /\ (op \in ListCalls /\ Returned /\ cells # pre.cells) => dirty
  /\ (op = "setText" /\ ListContent # pre.content) => dirty
  /\ (op = "metadata.set" /\ metadata # pre.metadata) => dirty

\* A move of a cell, made when dirty was false, has set it.
C1_Witness ==
  op = "move" /\ cells # pre.cells /\ ~pre.dirty /\ dirty

\* The history holds changes made by push, insert, remove and move only.
OnlyListCalls == \A i \in 1..Len(stack) : Len(stack[i]) = 1

\* C2, as stated: after push, insert, remove and move calls, an undo right
\* after the last of them gives the list that call started with.
C2_UndoAfterAnyListCall ==
  (op = "undo" /\ after \in ListCalls /\ OnlyListCalls) =>
    (cells = before.cells /\ ListContent = before.content)

\* C2, amended: an undo right after a push, insert, remove or move that
\* changed the list gives the list that call started with: the same cells,
\* in the same order.
C2_UndoRevertsLastChange ==
  (op = "undo" /\ after \in ListCalls /\ pre.cells # before.cells) =>
    (cells = before.cells /\ ListContent = before.content)

\* A removal from a list of two cells was undone.
C2_Witness ==
  /\ op = "undo" /\ after = "remove"
  /\ Len(cells) = 2 /\ Len(pre.cells) = 1
  /\ cells = before.cells

\* C3: an undo right after a load undoes the load: the list holds again the
\* cells it held before the load, the same objects with the same text.
C3_UndoAfterLoad ==
  (op = "undo" /\ after \in LoadCalls) =>
    (cells = before.cells /\ ListContent = before.content)

\* A cell with the text "foo" was pushed, a document with a cell was loaded
\* and the load was undone: the list holds the pushed cell alone.
C3_Witness ==
  /\ op = "undo" /\ after = "fromJSON"
  /\ pre.cells # <<>>
  /\ Len(cells) = 1 /\ store[cells[1]].text = "foo"
  /\ cells[1] \notin Range(pre.cells)

\* C4, as stated: an undo right after a load leaves the loaded cells in
\* place and brings no cell back.
C4_LoadResetsHistory ==
  (op = "undo" /\ after \in LoadCalls) => cells = pre.cells

\* C4, amended: a load keeps the undo history and adds its replacement of
\* the cells to it as one batch, so that an undo right after the load takes
\* every loaded cell out of the list and leaves the earlier history to be
\* undone.
C4_LoadIsOneBatch ==
  /\ Loaded => (index = pre.index + 1 /\ Len(stack) = index)
  /\ (op = "undo" /\ after \in LoadCalls) =>
       (Range(cells) \cap Range(pre.cells) = {} /\ index = before.index)

\* A load into a list that had a history was undone, and the history the
\* list had before the load is still there to be undone.
C4_Witness ==
  /\ op = "undo" /\ after \in LoadCalls
  /\ pre.cells # <<>> /\ cells # <<>>
  /\ index > 0

\* C5: an undo with nothing to undo leaves the list as it is and raises no
\* error.
C5_UndoEmptyHistory ==
  (op = "undo" /\ pre.index = 0) =>
    /\ Returned
    /\ cells = pre.cells /\ ListContent = pre.content
    /\ index = 0

\* Undo was called after everything had been undone.
C5_Witness ==
  op = "undo" /\ pre.index = 0 /\ Len(stack) > 0 /\ Returned

\* C6, as stated: a redo right after an undo gives the list the undo
\* started with.
C6_RedoAfterAnyUndo ==
  (op = "redo" /\ after = "undo") => cells = before.cells

\* C6, amended: a redo right after an undo that reverted a batch gives the
\* list that undo started with: redo applies the reverted batch again.
C6_RedoAfterUndo ==
  (op = "redo" /\ after = "undo" /\ before.index > 0) =>
    /\ cells = before.cells /\ ListContent = before.content
    /\ index = before.index

\* The insertion of a cell in front of another one was undone and redone.
C6_Witness ==
  /\ op = "redo" /\ after = "undo" /\ before.index > 0
  /\ Len(cells) = 2 /\ Len(pre.cells) = 1
  /\ cells[2] = pre.cells[1]

\* C7: after fromJSON(D) the list holds one cell per cell of D, in D's
\* order and with D's types and texts, and none of the cells it held before.
C7_LoadReplaces ==
  (op = "fromJSON" /\ Returned) =>
    /\ Len(cells) = Len(arg.cells)
    /\ \A i \in 1..Len(cells) :
         /\ store[cells[i]].type = arg.cells[i].cell_type
         /\ store[cells[i]].text = arg.cells[i].source
    /\ \A i, j \in 1..Len(cells) : cells[i] = cells[j] => i = j
    /\ Range(cells) \cap Range(pre.cells) = {}

\* A document was loaded into a list that held a cell.
C7_Witness ==
  /\ op = "fromJSON" /\ Returned
  /\ pre.cells # <<>>
  /\ Len(cells) = 1 /\ Len(arg.cells) = 1

\* C8: a fromJSON or fromString that returned leaves dirty true.
C8_LoadSetsDirty == Loaded => dirty

\* A load into a list whose dirty flag the caller had cleared.
C8_Witness ==
  Loaded /\ pre.cells # <<>> /\ ~pre.dirty /\ dirty

\* C9, as stated: right after a load dirty is false.
C9_CleanAfterLoad == Loaded => ~dirty

\* C9, amended: right after a load dirty is true; it is false in a model
\* that was just constructed.
C9_DirtyAfterLoad ==
  /\ Loaded => dirty = TRUE
  /\ op = "new" => dirty = FALSE

\* A document was loaded from a string into a model that was clean.
C9_Witness ==
  op = "fromString" /\ Returned /\ ~pre.dirty /\ dirty

\* The calls that read the model.
ReadCalls == {"toJSON", "toString", "metadata.get", "metadata.has"}

\* C10: dirty, once false, is false after toJSON, toString, metadata.get,
\* metadata.has and a metadata.set of the value the key holds; it turns true
\* only by a call that changes the list, the text of one of its cells or the
\* metadata, by a load, or by the caller's own assignment.
C10_DirtyStaysFalse ==
  /\ (~pre.dirty /\ op \in ReadCalls) => ~dirty
  /\ (~pre.dirty /\ op = "metadata.set" /\ metadata = pre.metadata) => ~dirty
  /\ (~pre.dirty /\ dirty) =>
       \/ op = "dirty"
       \/ Loaded
       \/ cells # pre.cells
       \/ ListContent # pre.content
       \/ metadata # pre.metadata

\* The caller had cleared dirty on a model with a cell and a key, and set
\* the key to the value it holds.
C10_Witness ==
  /\ op = "metadata.set" /\ metadata = pre.metadata
  /\ cells # <<>> /\ ~pre.dirty /\ ~dirty

\* The deliveries of the signal `sig` to the slot `to` in the last call.
Deliveries(sig, to) ==
  {j \in 1..Len(emitted) : emitted[j].signal = sig /\ emitted[j].to = to}

Slots == Range(Subscribers)

\* C11: a metadata.set of a value equal to the one the key holds delivers
\* no signal, leaves the metadata as they are and leaves dirty as it is.
C11_SetSameValueIsNoOp ==
  (op = "metadata.set" /\ pre.metadata[given.key] = given.value) =>
    /\ emitted = <<>>
    /\ metadata = pre.metadata
    /\ dirty = pre.dirty

\* The key "foo" held "bar", dirty was false, and "bar" was set again.
C11_Witness ==
  /\ op = "metadata.set" /\ given.key = "foo" /\ given.value = Str("bar")
  /\ pre.metadata["foo"] = Str("bar")
  /\ ~pre.dirty /\ emitted = <<>>

\* C12: a metadata.set of a value other than the one the key holds (none,
\* when the key is absent) delivers metadata.changed once to every slot,
\* with the key, the value the key held (absent if it held none) and the
\* new value, and the key then holds the new value.
C12_SetNewValueEmitsOnce ==
  (op = "metadata.set" /\ pre.metadata[given.key] # given.value) =>
    /\ \A to \in Slots : Cardinality(Deliveries("metadata.changed", to)) = 1
    /\ \A j \in 1..Len(emitted) :
         emitted[j].signal = "metadata.changed" =>
           /\ emitted[j].key = given.key
           /\ emitted[j].oldValue = pre.metadata[given.key]
           /\ emitted[j].newValue = given.value
    /\ metadata[given.key] = given.value

\* The key "foo" held "bar" and was set to 1.
C12_Witness ==
  /\ op = "metadata.set" /\ given.key = "foo" /\ given.value = Num("1")
  /\ pre.metadata["foo"] = Str("bar")
  /\ metadata["foo"] = Num("1")
  /\ \E j \in 1..Len(emitted) : emitted[j].oldValue = Str("bar")

\* C13: a push, insert, remove or move that changed the list, and a
\* metadata.set that changed a value, has delivered contentChanged to every
\* slot when it returns.
C13_MutationEmitsContentChanged ==
  /\ (op \in ListCalls /\ Returned /\ cells # pre.cells) =>
       \A to \in Slots : Deliveries("contentChanged", to) # {}
  /\ (op = "metadata.set" /\ metadata # pre.metadata) =>
       \A to \in Slots : Deliveries("contentChanged", to) # {}

\* A cell was removed from the list, and both slots were told.
C13_Witness ==
  /\ op = "remove" /\ Returned /\ Len(cells) < Len(pre.cells)
  /\ \A to \in Slots : Cardinality(Deliveries("contentChanged", to)) = 1

\* C15: a toJSON right after fromJSON(D) returns a document with the cells
\* of D: as many, in the same order, each with the same type and text.
C15_RoundTrip ==
  (op = "toJSON" /\ arg.hasCells) =>
    /\ Len(ret.doc.cells) = Len(arg.cells)
    /\ \A i \in 1..Len(arg.cells) :
         /\ ret.doc.cells[i].cell_type = arg.cells[i].cell_type
         /\ ret.doc.cells[i].source = arg.cells[i].source

\* A document of a markdown cell and a code cell with text was loaded and
\* serialized.
C15_Witness ==
  /\ op = "toJSON" /\ arg.hasCells
  /\ arg.cells = <<DocCell("markdown", ""), DocCell("code", "foo")>>
  /\ ret.doc.cells = arg.cells

\* C16: toJSON leaves the cells, the metadata, the format version, the undo
\* history and dirty as they are and emits no signal, and a toJSON right
\* after a toJSON returns the same document.
C16_ToJSONPure ==
  [][op' = "toJSON" =>
       /\ UNCHANGED Model
       /\ emitted' = <<>> /\ dialogs' = 0
       /\ (op = "toJSON" => ret' = ret)]_vars

\* toJSON was called on a dirty model with a cell and an undo history, and
\* returned the cells of the list.
C16_Witness ==
  /\ op = "toJSON" /\ ~arg.hasCells
  /\ cells # <<>> /\ index > 0 /\ dirty
  /\ ret.doc.cells = SerializedCells(cells, store)

\* C17: fromJSON of a value without a sequence of cells raises
\* MalformedDocument and leaves the cells, the metadata, the format version
\* and dirty as they were.
C17_MalformedDocument ==
  (op = "fromJSON" /\ ~arg.hasCells) =>
    /\ err = "MalformedDocument"
    /\ Snapshot = pre

\* A value without cells was given to a clean model that held a cell.
C17_Witness ==
  /\ op = "fromJSON" /\ err = "MalformedDocument"
  /\ cells # <<>> /\ cells = pre.cells /\ ~dirty

\* What a load of the document `d` leaves of a model that was as `p`.
LoadOutcome(p, d) ==
  [content |-> [i \in 1..Len(d.cells) |->
                  [type |-> d.cells[i].cell_type, text |-> d.cells[i].source]],
   index |-> p.index + 1,
   metadata |-> LoadedMetadata(d),
   nbformat |-> LoadedNbformat(d),
   nbformatMinor |-> d.nbformat_minor,
   dirty |-> DirtyOnLoad]

Outcome ==
  [content |-> ListContent, index |-> index, metadata |-> metadata,
   nbformat |-> nbformat, nbformatMinor |-> nbformatMinor, dirty |-> dirty]

\* C18: fromString of a text that is no JSON raises ParseError and leaves
\* the model as it was; fromString of the JSON text of D does what
\* fromJSON(D) does: it raises MalformedDocument and leaves the model when D
\* has no cells, and else leaves what fromJSON(D) leaves.
C18_FromString ==
  /\ (op = "fromString" /\ ~given.text.valid) =>
       (err = "ParseError" /\ Snapshot = pre)
  /\ (op = "fromString" /\ given.text.valid /\ ~given.text.value.hasCells) =>
       (err = "MalformedDocument" /\ Snapshot = pre)
  /\ (op = "fromString" /\ given.text.valid /\ given.text.value.hasCells) =>
       (Returned /\ Outcome = LoadOutcome(pre, given.text.value))
  /\ (op = "fromJSON" /\ Returned) => Outcome = LoadOutcome(pre, arg)

\* The text of a document with a code cell was loaded into a model that
\* held another cell.
C18_Witness ==
  /\ op = "fromString" /\ given.text.valid /\ Returned
  /\ pre.cells # <<>> /\ Len(cells) = 1
  /\ store[cells[1]] = [type |-> "code", text |-> "foo"]

\* The document of the last load records an original format older than the
\* library's.
Older == arg.orig_nbformat # 0 /\ arg.orig_nbformat < MAJOR_VERSION

\* C19: a fromJSON of a document that records an original format older than
\* the library's major version leaves model.nbformat at the library's major
\* version and presents the format dialog once; a fromJSON of any other
\* document presents none.
C19_UpgradeDialogOnce ==
  /\ (op = "fromJSON" /\ Returned /\ Older) =>
       (nbformat = MAJOR_VERSION /\ dialogs = 1)
  /\ (op = "fromJSON" /\ Returned /\ ~Older) => dialogs = 0

\* A document of the library's format that records the original format 1
\* was loaded.
C19_Witness ==
  /\ op = "fromJSON" /\ Returned
  /\ arg.orig_nbformat = 1 /\ arg.nbformat = MAJOR_VERSION
  /\ nbformat = MAJOR_VERSION /\ dialogs = 1

C21_DisposeIdempotent ==
  /\ op = "dispose" => (Returned /\ isDisposed /\ cellsNull)
  /\ (op = "dispose" /\ pre.isDisposed) => Snapshot = pre

\* A model that held a loaded cell was disposed twice.
C21_Witness ==
  /\ op = "dispose" /\ pre.isDisposed /\ isDisposed /\ cellsNull
  /\ store # <<>> /\ index = 0

\* The calls that change a model.
MutatingCalls ==
  ListCalls \cup LoadCalls \cup {"undo", "redo", "metadata.set", "dirty"}

\* C22: a disposed model stays disposed after every call, and a mutation
\* of a disposed model does nothing or reports UseAfterDispose: the cells,
\* the metadata, the format version and dirty stay as they were.
C22_DisposedIsTerminal ==
  /\ pre.isDisposed => isDisposed
  /\ (pre.isDisposed /\ op \in MutatingCalls) =>
       /\ err \in {"none", "UseAfterDispose"}
       /\ Snapshot = pre

\* fromJSON was called on a model that had been disposed holding a cell.
C22_Witness ==
  /\ op = "fromJSON" /\ pre.isDisposed /\ err = "UseAfterDispose"
  /\ isDisposed /\ cells = <<>> /\ store # <<>>

\* The name a kernel key gives: that of the object it holds, "" when the
\* key is missing, holds no object or holds an object without a name.
KernelView(k) ==
  IF metadata[k] = Absent \/ metadata[k].kind # "obj" THEN ""
  ELSE metadata[k].v

\* C23: defaultKernelName is the name of metadata kernelspec and
\* defaultKernelLanguage the name of metadata language_info, the empty
\* string when the key or its name is missing; a model just constructed has
\* the kernel name "" and the language it was constructed with, "" if none.
C23_KernelViews ==
  /\ op = "defaultKernelName" =>
       (Returned /\ ret = RetValue(Str(KernelView("kernelspec"))))
  /\ op = "defaultKernelLanguage" =>
       (Returned /\ ret = RetValue(Str(KernelView("language_info"))))
  /\ op = "new" =>
       /\ KernelView("kernelspec") = ""
       /\ KernelView("language_info") =
            (IF given.value = Absent THEN "" ELSE given.value.v)

\* The language was read after language_info had been deleted from a model
\* constructed with a language.
C23_Witness ==
  /\ op = "defaultKernelLanguage" /\ metadata["language_info"] = Absent
  /\ metadata["kernelspec"] = Obj("python3")
  /\ ret = RetValue(Str(""))

\* C24: metadata.delete of a key that holds a value removes the key and
\* delivers metadata.changed once to every slot, with the key, the removed
\* value and no new value; delete of a key that holds none delivers nothing
\* and leaves the map and its size.
C24_Delete ==
  /\ (op = "metadata.delete" /\ pre.metadata[given.key] # Absent) =>
       /\ metadata[given.key] = Absent
       /\ \A to \in Slots :
            Cardinality(Deliveries("metadata.changed", to)) = 1
       /\ \A j \in 1..Len(emitted) :
            emitted[j].signal = "metadata.changed" =>
              /\ emitted[j].key = given.key
              /\ emitted[j].oldValue = pre.metadata[given.key]
              /\ emitted[j].newValue = Absent
  /\ (op = "metadata.delete" /\ pre.metadata[given.key] = Absent) =>
       /\ emitted = <<>>
       /\ metadata = pre.metadata
       /\ metadataSize =
            Cardinality({k \in MetaKeys : pre.metadata[k] # Absent})

\* The key "foo", which held "bar", was deleted.
C24_Witness ==
  /\ op = "metadata.delete" /\ given.key = "foo"
  /\ pre.metadata["foo"] = Str("bar") /\ metadata["foo"] = Absent
  /\ metadataSize = 2 /\ emitted # <<>>

\* C25: insert(i, cell) returns exactly when 0 <= i <= length, and then the
\* list is one cell longer; with any other index it raises IndexOutOfRange
\* and leaves the list, its undo history and dirty as they were.
C25_InsertIndex ==
  [][op' = "insert" =>
       IF 0 <= given'.index /\ given'.index <= Len(cells)
       THEN /\ err' = "none"
            /\ Len(cells') = Len(cells) + 1
            /\ cells'[given'.index + 1] \notin Range(cells)
       ELSE /\ err' = "IndexOutOfRange"
            /\ UNCHANGED <<cells, store, stack, index, dirty>>]_vars

\* An insert past the end of a list of one cell, with an undo history and
\* dirty cleared, was refused.
C25_Witness ==
  /\ op = "insert" /\ err = "IndexOutOfRange" /\ given.index = 2
  /\ Len(cells) = 1 /\ index > 0 /\ ~dirty

\* No cell occurs twice in the list `s`.
NoDuplicate(s) == \A i, j \in 1..Len(s) : s[i] = s[j] => i = j

\* The cells that two lists hold at once.
Shared == Range(cells) \cap Range(other)

C27_CreateCell ==
  [][/\ \A c \in 1..Len(store) :
          c <= Len(store') /\ store'[c].type = store[c].type
     /\ op' = "createCell" =>
          IF given'.type \in CellTypes
          THEN /\ err' = "none"
               /\ ret' = RetValue(Len(store) + 1)
               /\ Len(store') = Len(store) + 1
               /\ store'[Len(store')].type = given'.type
          ELSE /\ err' = "InvalidCellType"
               /\ ret' = RetNone
               /\ store' = store]_vars

\* A markdown cell was made and edited, and then a request for a cell of an
\* unknown type failed.
C27_Witness ==
  /\ op = "createCell" /\ err = "InvalidCellType" /\ given.type = "heading"
  /\ Len(store) = 1 /\ store[1] = [type |-> "markdown", text |-> "foo"]

\* The last resolve made a loading placeholder with the refresh svg and
\* registered it under the name it was given.
MadePlaceholder ==
  /\ icall'.ret \in DOMAIN heap' \ DOMAIN heap
  /\ Get(heap', icall'.ret, "svgstr") = refreshSvgstr
  /\ Get(heap', icall'.ret, "loading")
  /\ Get(heap', icall'.ret, "name") = icall'.name
  /\ MapHas(instances', icall'.name)
  /\ MapGet(instances', icall'.name) = icall'.ret

\* The last resolve returned an icon there was and made or registered none.
ResolvedTo(x) == icall'.ret = x /\ UNCHANGED <<heap, instances>>

\* C28, as stated: resolve returns a LabIcon it is given, the registered icon
\* for a registered name, and for an unregistered name a new loading
\* placeholder with the refresh svg, registered under that name (so the next
\* resolve of the name, of a registered name then, returns it).
C28_Resolve ==
  [][icall'.op = "resolve" =>
       IF icall'.kind = "icon" THEN ResolvedTo(icall'.target)
       ELSE IF icall'.kind # "name" THEN TRUE
       ELSE IF MapHas(instances, icall'.name)
       THEN ResolvedTo(MapGet(instances, icall'.name))
       ELSE MadePlaceholder]_vars

\* C28, amended: as above for every name but the empty one; for the empty
\* name resolve returns badIcon and makes and registers nothing.
C28_ResolveNamed ==
  [][icall'.op = "resolve" =>
       IF icall'.kind = "icon" THEN ResolvedTo(icall'.target)
       ELSE IF icall'.kind # "name" THEN TRUE
       ELSE IF MapHas(instances, icall'.name)
       THEN ResolvedTo(MapGet(instances, icall'.name))
       ELSE IF icall'.name = "" THEN ResolvedTo(badIcon)
       ELSE MadePlaceholder]_vars

\* A resolve of the name "a" made nothing and returned the placeholder that
\* an earlier resolve had registered.
C28_Witness ==
  /\ icall.op = "resolve" /\ icall.kind = "name" /\ icall.name = "a"
  /\ icall.emitted = 0 /\ icall.ret \notin {badIcon, blankIcon}
  /\ MapGet(instances, "a") = icall.ret
  /\ Get(heap, icall.ret, "loading")
  /\ Get(heap, icall.ret, "svgstr") = refreshSvgstr

\* The objects of an icon and its views, and the views of these.
RECURSIVE Root(_, _)
Root(h, x) == IF h[x].proto = 0 THEN x ELSE Root(h, h[x].proto)
Family(h, x) == {y \in DOMAIN h : Root(h, y) = Root(h, x)}

\* The svg string the object reports, and the svg text of the element that
\* element() renders for it.
Reported(h, x) == Get(h, x, "svgstr")
Rendered(h, d, x) == Get(svgElement(h, d, x), x, "svgElement").svg

\* C29: after the svgstr was set through an icon or through a view of it,
\* the icon and all its views report the new svg string and render it.
C29_SharedContent ==
  [][icall'.op = "svgstr" =>
       \A y \in Family(heap', icall'.target) :
         /\ Reported(heap', y) = icall'.svgstr
         /\ Rendered(heap', debug', y) = icall'.svgstr]_vars

\* The registry holds one entry for a name at most, and the icon of an entry
\* has the entry's key as its name.
RegistryOK(m, h) ==
  /\ \A e1, e2 \in m : e1.key = e2.key => e1 = e2
  /\ \A e \in m : e.icon \in DOMAIN h /\ Get(h, e.icon, "name") = e.key

\* C30: the registry holds one icon for a name at most, under its own name;
\* the constructor, for a registered name, adds no entry and returns the
\* registered icon with the svg string replaced, and for an empty name or svg
\* string returns badIcon and changes no entry and no icon's svg string.
C30_Registry ==
  /\ RegistryOK(instances, heap)
  /\ [][/\ RegistryOK(instances', heap')
        /\ icall'.op = "new" =>
             IF icall'.name = "" \/ icall'.svgstr = ""
             THEN /\ icall'.ret = badIcon
                  /\ instances' = instances
                  /\ DOMAIN heap' = DOMAIN heap
                  /\ \A x \in DOMAIN heap :
                       Reported(heap', x) = Reported(heap, x)
             ELSE \A e \in instances :
                    e.key = icall'.name =>
                      /\ instances' = instances
                      /\ DOMAIN heap' = DOMAIN heap
                      /\ icall'.ret = e.icon
                      /\ Reported(heap', e.icon) = icall'.svgstr]_vars

\* The constructor was called with the name of a registered icon and with
\* another svg string than the icon had.
C30_Witness ==
  /\ icall.op = "new" /\ icall.name = "a" /\ icall.svgstr = "two.svg"
  /\ icall.log = <<"warn: redefining">>
  /\ Cardinality(instances) = 3
  /\ icall.ret = MapGet(instances, "a")
  /\ Reported(heap, icall.ret) = "two.svg"

\* The last call was the constructor's, with a name and an svg string.
Defines == icall'.op = "new" /\ icall'.name # "" /\ icall'.svgstr # ""

\* C31: when an icon is defined under a name that a resolve made a
\* placeholder for, the constructor returns the placeholder, which then
\* reports and renders the defined svg string.
C31_DefinedLater ==
  [][Defines =>
       \A e \in instances :
         (/\ e.key = icall'.name
          /\ Get(heap, e.icon, "loading")
          /\ Reported(heap, e.icon) = refreshSvgstr)
         => /\ icall'.ret = e.icon
            /\ instances' = instances
            /\ Reported(heap', e.icon) = icall'.svgstr
            /\ Rendered(heap', debug', e.icon) = icall'.svgstr]_vars

\* The name "a" was resolved and rendered into the container, and then
\* defined: the placeholder has the svg, and so has the container.
C31_Witness ==
  /\ icall.op = "new" /\ icall.name = "a" /\ icall.svgstr = "one.svg"
  /\ icall.ret = MapGet(instances, "a")
  /\ pre.cells = <<>>
  /\ Get(heap, icall.ret, "loading")
  /\ Reported(heap, icall.ret) = "one.svg"
  /\ containers[1].child.svg = "one.svg"
  /\ containers[1].child.iconId = Get(heap, icall.ret, "uuid")

\* The constructor's last call warned of a redefinition.
Warned == \E i \in DOMAIN icall'.log : icall'.log[i] = "warn: redefining"

\* C32: the constructor warns of a redefinition only if the registered icon
\* is not a loading placeholder, and after the constructor replaced the svg
\* of a placeholder the icon is not marked as loading.
C32_WarnsOfLoadedOnly ==
  [][Defines =>
       \A e \in instances :
         e.key = icall'.name =>
           /\ Warned => ~Get(heap, e.icon, "loading")
           /\ Get(heap, e.icon, "loading") =>
                ~Warned /\ ~Get(heap', e.icon, "loading")]_vars

\* The object whose svgstr the last call assigned, 0 if it assigned none.
Assigned ==
  IF icall'.op = "svgstr" THEN icall'.target
  ELSE IF Defines THEN icall'.ret
  ELSE 0

\* C33: every assignment to an object's svgstr, also of the string it has,
\* gives the object a uuid that no object had before, and emits _svgReplaced
\* once. (No object has a uuid that was not made yet.)
C33_NewUuid ==
  [][/\ \A y \in DOMAIN heap' : Get(heap', y, "uuid") \in 1..uuids'
     /\ Assigned # 0 =>
          /\ Get(heap', Assigned, "uuid") \notin 0..uuids
          /\ \A y \in DOMAIN heap :
               Get(heap', Assigned, "uuid") # Get(heap, y, "uuid")
          /\ icall'.emitted = 1]_vars

\* An icon was assigned the svg string it had, and has the newest uuid.
C33_Witness ==
  /\ icall.op = "svgstr" /\ icall.was = icall.svgstr /\ icall.emitted = 1
  /\ heap[icall.target].proto = 0
  /\ Get(heap, icall.target, "uuid") = uuids
  /\ uuids = 4

\* The caches of the object `x` that are populated.
Populated(x) ==
  {f \in {"svgElementRaw", "svgElement", "svgInnerHTML", "svgReactAttrs"} :
     Get(heap, x, f) # Undefined}

\* The populated caches of `x` were made of its svg string, and those made
\* of the raw element are null if and only if the raw element is.
MadeOfSvgstr(x) ==
  /\ \A f \in Populated(x) :
       /\ Get(heap, x, f) # Null => Get(heap, x, f).svg = Reported(heap, x)
       /\ "svgElementRaw" \in Populated(x)
       /\ Get(heap, x, f) = Null <=> Get(heap, x, "svgElementRaw") = Null
  /\ "svgElementRaw" \in Populated(x) =>
       Get(heap, x, "svgElementRaw") \in
         {resolveSvg(TRUE, Reported(heap, x)),
          resolveSvg(FALSE, Reported(heap, x))}

\* C34, as stated: the populated caches of a registered icon were made of
\* its svg string, a populated svg element has the icon's uuid as its icon
\* id, and the caches are null exactly when the raw element is.
C34_CachesFresh ==
  \A e \in instances :
    /\ MadeOfSvgstr(e.icon)
    /\ Get(heap, e.icon, "svgElement") \notin {Undefined, Null} =>
         Get(heap, e.icon, "svgElement").iconId = Get(heap, e.icon, "uuid")

\* C34, amended: as above, but only an svg element that is an svg node has
\* the icon's uuid as its icon id: the parser's error node, which debug mode
\* keeps as the element, has none.
C34_CachesFreshButErrorNode ==
  \A e \in instances :
    /\ MadeOfSvgstr(e.icon)
    /\ Get(heap, e.icon, "svgElement") \notin {Undefined, Null} =>
         IF Get(heap, e.icon, "svgElement").kind = "parsererror"
         THEN Get(heap, e.icon, "svgElement").iconId = 0
         ELSE /\ Get(heap, e.icon, "svgElement").iconId
                   = Get(heap, e.icon, "uuid")
              /\ Get(heap, e.icon, "svgElement").icon = e.key

\* The icon "a" got another svg string and was rendered by React since: its
\* four caches are populated, and its element has its newest uuid.
C34_Witness ==
  /\ MapHas(instances, "a")
  /\ Populated(MapGet(instances, "a"))
       = {"svgElementRaw", "svgElement", "svgInnerHTML", "svgReactAttrs"}
  /\ Get(heap, MapGet(instances, "a"), "svgReactAttrs").svg = "two.svg"
  /\ Get(heap, MapGet(instances, "a"), "svgElement").iconId = 5
  /\ Get(heap, MapGet(instances, "a"), "uuid") = 5

\* The last call was element() with the container `c` for the object `x`,
\* whose svg string parses.
ElementInto(x, c) ==
  /\ icall'.op = "element" /\ icall'.target = x /\ icall'.container = c
  /\ Reported(heap, x) \in WellFormed

\* The container `c` holds the svg that the object `x` has now: an svg node
\* with the object's uuid.
Holds(c, x) ==
  /\ containers[c].child.kind = "svg"
  /\ containers[c].child.iconId = Get(heap, x, "uuid")

\* element() returned the node in the container and left the container.
Kept(c) ==
  /\ icall'.kind = "kept"
  /\ icall'.el = containers[c].child
  /\ containers' = containers

\* element() put the svg that the object `x` has now into the container.
Replaced(x, c) ==
  /\ icall'.kind = "rendered"
  /\ containers'[c].child = icall'.el
  /\ icall'.el.kind = "svg"
  /\ icall'.el.svg = Reported(heap, x)
  /\ icall'.el.iconId = Get(heap, x, "uuid")
  /\ containers'[c].text = Spread(Get(heap, x, "props"), icall'.props).label

\* C35, as stated: element() with a container that holds the icon's svg
\* returns the node there is and leaves the container, whatever the props
\* and the label; with a container that holds an older svg of the icon, or
\* anything else, it puts the icon's svg into the container.
C35_ElementAgain ==
  [][\A x \in DOMAIN heap, c \in 1..MaxContainers :
       ElementInto(x, c) =>
         IF Holds(c, x) THEN Kept(c) ELSE Replaced(x, c)]_vars

\* C35, amended: as above if the container has no label before the svg; if
\* it has one, the first child is the text, and element() renders again: it
\* replaces the text and the svg by the label it is given and a new copy.
C35_ElementAgainUnlabelled ==
  [][\A x \in DOMAIN heap, c \in 1..MaxContainers :
       ElementInto(x, c) =>
         IF Holds(c, x) /\ containers[c].text = ""
         THEN Kept(c)
         ELSE Replaced(x, c)]_vars

\* The icon was rendered with a label into the container, and element() with
\* the same container rendered it again.
C35_Witness ==
  /\ icall.op = "element" /\ icall.kind = "rendered" /\ icall.container = 1
  /\ icall.before.text = "label"
  /\ icall.before.child.kind = "svg"
  /\ icall.before.child.iconId = Get(heap, icall.target, "uuid")
  /\ containers[1].child = icall.before.child

\* The last call was element() for the object `x`, whose svg string does not
\* parse.
ElementOfMalformed(x) ==
  /\ icall'.op = "element" /\ icall'.target = x
  /\ Reported(heap, x) \notin WellFormed

\* element() returned an empty div and left the containers as they were.
Bailed == icall'.kind = "blank" /\ icall'.el = Div /\ containers' = containers

\* element() rendered the parser's error node, into the container if it was
\* given one.
RenderedError ==
  /\ icall'.kind = "rendered"
  /\ icall'.el = Node("parsererror", Reported(heap, icall'.target), "", 0)
  /\ icall'.container # 0 => containers'[icall'.container].child = icall'.el

\* C36, as stated: for an svg string that does not parse, resolveSvg is null
\* and element() returns an empty div and leaves the container if debug is
\* off, and the parser's error node is rendered if debug is on.
C36_Malformed ==
  [][\A x \in DOMAIN heap :
       ElementOfMalformed(x) =>
         IF debug
         THEN RenderedError
         ELSE resolveSvg(debug, Reported(heap, x)) = Null /\ Bailed]_vars

\* C36, amended: as above with debug as it was when the svg string was
\* parsed, which is at the first rendering after its assignment; the result
\* is kept until the next assignment, whatever debug is by then.
C36_MalformedAsParsed ==
  [][\A x \in DOMAIN heap :
       ElementOfMalformed(x) =>
         IF Get(heap, x, "svgElementRaw") = Undefined
         THEN IF debug
              THEN RenderedError
              ELSE resolveSvg(debug, Reported(heap, x)) = Null /\ Bailed
         ELSE IF Get(heap, x, "svgElementRaw") = Null
              THEN Bailed
              ELSE RenderedError]_vars

\* debug is on, and element() returned an empty div and left the container
\* and the svg in it: the svg string was parsed when debug was off.
C36_Witness ==
  /\ icall.op = "element" /\ icall.kind = "blank" /\ icall.container = 1
  /\ debug
  /\ Reported(heap, icall.target) = "malformed"
  /\ containers[1] = icall.before
  /\ containers[1].child.kind = "svg" /\ containers[1].text = "label"

\* The names of the core packages that the last call knew, other than the
\* metapackage itself, and the version of one of them.
KnownCore ==
  {repo.core[i].name :
     i \in {j \in DOMAIN repo.core :
              repo.core[j].path # mpPath /\ repo.core[j].name # NoValue}}

VersionOf(n) ==
  repo.core[CHOOSE i \in DOMAIN repo.core : repo.core[i].name = n].version

\* C37: after ensureMetaPackage() the dependency names of the metapackage
\* are the names of the known core packages other than the metapackage
\* itself: each one that was missing is there as '^' + its version and has
\* an 'Updated' message, each extra one has a 'Removing dependency'
\* message, and the manifest is written if and only if there is a message.
C37_MetaPackage ==
  repo.op = "ensureMetaPackage" =>
    /\ KeySet(repo.dependencies) = KnownCore
    /\ \A n \in KnownCore \ KeySet(repo.before) :
         /\ DictGet(repo.dependencies, n) = "^" \o VersionOf(n)
         /\ <<"Updated", n>> \in Range(repo.messages)
    /\ \A n \in KeySet(repo.before) \ KnownCore :
         <<"Removing dependency", n>> \in Range(repo.messages)
    /\ (repo.written # {}) <=> (repo.messages # <<>>)

\* A call that added one dependency, removed another and wrote the manifest.
C37_Witness ==
  /\ repo.op = "ensureMetaPackage"
  /\ KnownCore \ KeySet(repo.before) # {}
  /\ KeySet(repo.before) \ KnownCore # {}
  /\ KeySet(repo.dependencies) # KeySet(repo.before)
  /\ repo.written = {"packages/metapackage/package.json"}

\* The names of the readable core packages of the last call.
CoreNames ==
  {repo.core[i].name : i \in {j \in DOMAIN repo.core : Readable(repo.core[j])}}

\* The core packages, by their place, that depend on `s`, and the version
\* that the first of them asks for.
Asking(s) ==
  {i \in DOMAIN repo.core :
     Readable(repo.core[i]) /\ DictHas(repo.core[i].dependencies, s)}

FirstAsked(s) ==
  DictGet(repo.core[CHOOSE i \in Asking(s) : \A k \in Asking(s) : i <= k]
            .dependencies, s)

\* C38: ensureJupyterlab throws exactly when some singleton package is
\* neither a core package nor a dependency of one, that is, when it has no
\* resolution after every core package got '~' + its version and the
\* dependencies of the core packages filled the gaps, the first one to ask
\* winning and no core package's resolution being overridden; when it
\* throws dev_mode/package.json is not written, and when it does not every
\* singleton package has a resolution.
C38_Jupyterlab ==
  repo.op = "ensureJupyterlab" =>
    LET resolutions == repo.corePackage.resolutions
        singletons == Range(repo.corePackage.singletonPackages)
    IN  /\ repo.thrown <=>
             \E s \in singletons : s \notin CoreNames /\ Asking(s) = {}
        /\ \A n \in CoreNames :
             DictGet(resolutions, n) = "~" \o VersionOf(n)
        /\ \A s \in singletons \ CoreNames :
             Asking(s) # {} => DictGet(resolutions, s) = FirstAsked(s)
        /\ repo.thrown => repo.written = {}
        /\ ~repo.thrown => \A s \in singletons : DictHas(resolutions, s)

\* A call that threw, and wrote nothing, for one singleton although a
\* dependency of a core package had resolved another.
C38_Witness ==
  /\ repo.op = "ensureJupyterlab"
  /\ repo.thrown
  /\ repo.written = {}
  /\ \E s \in Range(repo.corePackage.singletonPackages) :
       s \notin CoreNames /\ DictHas(repo.corePackage.resolutions, s)

\* Some step of the last ensureIntegrity produced a message.
Produced == \E i \in DOMAIN repo.steps : repo.steps[i] # <<>>

\* C39 as stated: ensureIntegrity resolves to true only if no step produced
\* a message, and if a step produced one it resolves to false, or exits
\* with status 1 when --force is given.
C39_Integrity ==
  repo.op = "ensureIntegrity" =>
    /\ repo.outcome = "true" => ~Produced
    /\ Produced => repo.outcome = IF repo.force THEN "exit 1" ELSE "false"

\* C39: ensureIntegrity resolves to true only if no step produced a
\* message; if a step produced one it resolves to false, or exits with
\* status 1 when --force is given, unless ensureJupyterlab throws, and then
\* the promise is rejected.
C39_IntegrityUnlessThrown ==
  repo.op = "ensureIntegrity" =>
    /\ repo.outcome = "true" => ~Produced
    /\ Produced =>
         repo.outcome = IF repo.thrown THEN "rejected"
                        ELSE IF repo.force THEN "exit 1" ELSE "false"

\* A run in which a step produced a message and that exited with status 1.
C39_Witness ==
  /\ repo.op = "ensureIntegrity"
  /\ Produced
  /\ repo.force
  /\ repo.outcome = "exit 1"

====
